---- MODULE Spec2Model ----
(***************************************************************************)
(* A model of caf.ntem: the year interpolator that wraps every query       *)
(* (queries.py: batched years, query.py: one year), the query engine over  *)
(* the normalised store, and the zone reconciliation of the build.         *)
(*                                                                         *)
(* Numbers.  The store holds floating point values; the model computes     *)
(* with exact rationals <<numerator, denominator>> (denominator > 0, in    *)
(* lowest terms) and keeps pandas' missing value as NaN == <<0, 0>>.       *)
(* Rounding of the floating point operations is not modelled.              *)
(*                                                                         *)
(* Tables.  A frame is a function from row key to value: the rows a query  *)
(* returns for one year.  What a wrapped query returns is a function from  *)
(* year to frame, defined on the years that have rows.                     *)
(***************************************************************************)
EXTENDS Integers, Sequences, FiniteSets, TLC

VARIABLES
    wrapped,    \* the wrapped query: [error, index, rows], rows: year -> frame
    years,      \* the years the caller listed, in the caller's order
    out,        \* what the interpolated query gave back: a table or an error
    pc,         \* which entry point ran
    access,     \* the Access files handed to build_db
    db,         \* the committed content of Nice_NTEM.db, one field per table
    build,      \* where build_db stands: [pc, todo, id_sub, metadata_id]
    request,    \* the parameters of the query that ran
    executed,   \* number of statements the query executed against the store
    run         \* where QueryArgs.run stands: [pc, args, todo, written]

vars == <<wrapped, years, out, pc, access, db, build, request, executed, run>>

\* no QueryArgs.run under way
NoRun == [pc |-> "idle", args |-> <<>>, todo |-> <<>>, written |-> <<>>]

NoStore == <<access, db, build, request, executed, run>>

----------------------------------------------------------------------------
(* Program constants: ntem_constants.py *)

NTEM_LOW_YEAR == 2011
NTEM_HIGH_YEAR == 2061
NTEM_YEAR_STEP == 5

\* np.array(range(low, high + 1, step))
NTEM_YEARS ==
    {y \in NTEM_LOW_YEAR..NTEM_HIGH_YEAR : (y - NTEM_LOW_YEAR) % NTEM_YEAR_STEP = 0}

----------------------------------------------------------------------------
(* Bounds of the model *)

\* stored values range over 0..MaxValue
MaxValue == 1
\* a caller lists at most MaxYears years in one call
MaxYears == 2
\* the most passes of convert_to_avg_period over one store
MaxConvert == 2

\* row keys of a wrapped query's result
Keys == {<<"k1">>, <<"k2">>}
\* the year columns a source table may carry: the first two native years
SourceYears == {NTEM_LOW_YEAR, NTEM_LOW_YEAR + NTEM_YEAR_STEP}
\* the years a caller may ask for: native ones, years inside the first two
\* brackets, and one year on either side of the native grid
RequestYears ==
    {NTEM_LOW_YEAR - 2, NTEM_LOW_YEAR, NTEM_LOW_YEAR + 2, NTEM_LOW_YEAR + 3,
     NTEM_LOW_YEAR + NTEM_YEAR_STEP, NTEM_LOW_YEAR + NTEM_YEAR_STEP + 2,
     NTEM_HIGH_YEAR + 2}

----------------------------------------------------------------------------
(* Exact arithmetic on values *)

NaN == <<0, 0>>

IsNaN(v) == v[2] = 0

Abs(n) == IF n < 0 THEN -n ELSE n

RECURSIVE GCD(_, _)
GCD(a, b) == IF b = 0 THEN a ELSE GCD(b, a % b)

Rat(n, d) ==
    IF d = 0 THEN NaN
    ELSE LET g == GCD(Abs(n), Abs(d))
             s == IF d < 0 THEN -1 ELSE 1
         IN <<s * (n \div g), s * (d \div g)>>

Int2Rat(n) == <<n, 1>>

RatAdd(a, b) ==
    IF IsNaN(a) \/ IsNaN(b) THEN NaN ELSE Rat(a[1] * b[2] + b[1] * a[2], a[2] * b[2])

RatSub(a, b) ==
    IF IsNaN(a) \/ IsNaN(b) THEN NaN ELSE Rat(a[1] * b[2] - b[1] * a[2], a[2] * b[2])

\* a value times an integer
RatMulInt(a, k) == IF IsNaN(a) THEN NaN ELSE Rat(a[1] * k, a[2])

\* a value divided by a non-zero integer
RatDivInt(a, k) == IF IsNaN(a) THEN NaN ELSE Rat(a[1], a[2] * k)

RatLe(a, b) == ~IsNaN(a) /\ ~IsNaN(b) /\ a[1] * b[2] <= b[1] * a[2]

----------------------------------------------------------------------------
(* pandas frame arithmetic: rows are aligned on their keys; a key missing  *)
(* on one side gives NaN.                                                  *)

EmptyFrame == <<>>

\* what an expression is worth once a .xs(...) in it has raised KeyError
KeyErrorFrame == [k \in {<<>>} |-> NaN]

FrameSub(a, b) ==
    IF a = KeyErrorFrame \/ b = KeyErrorFrame THEN KeyErrorFrame
    ELSE [k \in DOMAIN a \cup DOMAIN b |->
            IF k \in DOMAIN a /\ k \in DOMAIN b THEN RatSub(a[k], b[k]) ELSE NaN]

FrameAdd(a, b) ==
    IF a = KeyErrorFrame \/ b = KeyErrorFrame THEN KeyErrorFrame
    ELSE [k \in DOMAIN a \cup DOMAIN b |->
            IF k \in DOMAIN a /\ k \in DOMAIN b THEN RatAdd(a[k], b[k]) ELSE NaN]

FrameDivInt(a, n) ==
    IF a = KeyErrorFrame THEN KeyErrorFrame ELSE [k \in DOMAIN a |-> RatDivInt(a[k], n)]

FrameMulInt(a, n) ==
    IF a = KeyErrorFrame THEN KeyErrorFrame ELSE [k \in DOMAIN a |-> RatMulInt(a[k], n)]

----------------------------------------------------------------------------
(* Results *)

Raise(e) == [kind |-> "error", error |-> e, blocks |-> <<>>]

Table(bs) == [kind |-> "table", error |-> "none", blocks |-> bs]

NoResult == [kind |-> "none", error |-> "none", blocks |-> <<>>]

\* the rows of one year of a result, with the index levels they carry
Block(y, levels, frame) == [year |-> y, index |-> levels, rows |-> frame]

----------------------------------------------------------------------------
(* _interpolation_years: None for a native year, else (lower, upper); the  *)
(* min/max of an empty numpy selection raises ValueError.                  *)

Max(S) == CHOOSE m \in S : \A x \in S : x <= m
Min(S) == CHOOSE m \in S : \A x \in S : m <= x

\* a variant that clamps to the grid: the two nearest native years
interpolation_years_clamped(year) ==
    IF year \in NTEM_YEARS THEN [status |-> "none", lower |-> year, upper |-> year]
    ELSE IF year < NTEM_LOW_YEAR
    THEN [status |-> "years", lower |-> NTEM_LOW_YEAR,
          upper |-> NTEM_LOW_YEAR + NTEM_YEAR_STEP]
    ELSE IF year > NTEM_HIGH_YEAR
    THEN [status |-> "years", lower |-> NTEM_HIGH_YEAR - NTEM_YEAR_STEP,
          upper |-> NTEM_HIGH_YEAR]
    ELSE [status |-> "years",
          lower |-> Max({n \in NTEM_YEARS : n < year}),
          upper |-> Min({n \in NTEM_YEARS : n > year})]

interpolation_years(year) ==
    IF year \in NTEM_YEARS THEN [status |-> "none", lower |-> year, upper |-> year]
    ELSE LET above == {n \in NTEM_YEARS : n > year}
             below == {n \in NTEM_YEARS : n < year}
         IN IF above = {} \/ below = {}
            THEN [status |-> "raise", lower |-> year, upper |-> year]
            ELSE [status |-> "years", lower |-> Max(below), upper |-> Min(above)]

----------------------------------------------------------------------------
(* The wrapped query.  func(years=...) of queries.py returns the rows of   *)
(* the years asked for that have rows; func(year=...) of query.py the      *)
(* frame of that year, empty when it has no rows.                          *)

func_years(w, ys) == [y \in (DOMAIN w.rows) \cap ys |-> w.rows[y]]

func_year(w, y) == IF y \in DOMAIN w.rows THEN w.rows[y] ELSE EmptyFrame

RECURSIVE WithoutYear(_)
WithoutYear(levels) ==
    IF levels = <<>> THEN <<>>
    ELSE IF Head(levels) = "year" THEN Tail(levels)
    ELSE <<Head(levels)>> \o WithoutYear(Tail(levels))

\* a variant that leaves the index levels in the wrapped query's order
reorder_levels_kept(levels) == levels

\* index_levels.remove("year"); index_levels.append("year");
\* query_out.reorder_levels(index_levels)
reorder_levels(levels) == WithoutYear(levels) \o <<"year">>

SeqRange(s) == {s[i] : i \in DOMAIN s}

----------------------------------------------------------------------------
(* queries.py: _linear_interpolate.wrapper_func, the batched interpolator  *)

\* the requested years handed on as they are
requested_years(ys) == SeqRange(ys)

\* the years handed to the wrapped query: each requested native year and
\* both brackets of each requested non-native year, as one set
query_years(ys) ==
    UNION {LET iy == interpolation_years(ys[i])
           IN IF iy.status = "years" THEN {iy.lower, iy.upper} ELSE {ys[i]}
           : i \in DOMAIN ys}

\* query_out.xs(y, level="year"): the rows of year y; KeyError when the
\* year level holds no y
xs(query_out, y) == IF y \in DOMAIN query_out THEN query_out[y] ELSE KeyErrorFrame

\* a variant that takes the first year of query_out whatever y is
native_rows_first_year(query_out, y) == query_out[Min(DOMAIN query_out)]

\* query_out.xs(y, level="year", drop_level=False): a native year's rows
native_rows(query_out, y) == xs(query_out, y)

\* the interpolation expression, as written in the source
\* (interp_years[0] is the lower bracket, interp_years[1] the upper)
queries_interp(query_out, lower, upper, y) ==
    FrameAdd(
        FrameMulInt(
            FrameDivInt(FrameSub(xs(query_out, upper), xs(query_out, upper)),
                        lower - upper),
            y - lower),
        xs(query_out, upper))

\* one entry of output_stack
output_block(query_out, index_levels, y) ==
    LET iy == interpolation_years(y)
    IN IF iy.status = "none"
       THEN Block(y, index_levels, native_rows(query_out, y))
       ELSE Block(y, WithoutYear(index_levels) \o <<"year">>,
                  queries_interp(query_out, iy.lower, iy.upper, y))

queries_wrapper_func(w, ys) ==
    IF \E i \in DOMAIN ys : interpolation_years(ys[i]).status = "raise"
    THEN Raise("ValueError")
    ELSE IF w.error # "none" THEN Raise(w.error)
    ELSE LET query_out == func_years(w, query_years(ys))
         IN IF DOMAIN query_out = {} THEN Raise("ValueError")
            ELSE IF "year" \notin SeqRange(w.index) THEN Raise("KeyError")
            ELSE LET output_stack ==
                         [i \in DOMAIN ys |->
                            output_block(query_out, reorder_levels(w.index), ys[i])]
                 IN IF \E i \in DOMAIN ys : output_stack[i].rows = KeyErrorFrame
                    THEN Raise("KeyError")
                    ELSE Table(output_stack)

----------------------------------------------------------------------------
(* query.py: _linear_interpolate.wrapper_func, the single-year interpolator *)

query_interp(lower_frame, upper_frame, lower, upper, year) ==
    LET gradient == FrameDivInt(FrameSub(upper_frame, lower_frame), lower - upper)
    IN FrameAdd(FrameMulInt(gradient, year - lower), lower_frame)

query_wrapper_func(w, year) ==
    LET iy == interpolation_years(year)
    IN IF iy.status = "raise" THEN Raise("ValueError")
       ELSE IF w.error # "none" THEN Raise(w.error)
       ELSE IF iy.status = "none"
       THEN Table(<<Block(year, WithoutYear(w.index), func_year(w, year))>>)
       ELSE Table(<<Block(year, WithoutYear(w.index),
                          query_interp(func_year(w, iy.lower), func_year(w, iy.upper),
                                       iy.lower, iy.upper, year))>>)

----------------------------------------------------------------------------
(* The interpolator on its own: any wrapped query result, any request.     *)

Values == {Int2Rat(v) : v \in 0..MaxValue}

\* index layouts of the wrapped queries: PlanningQuery (zone, year),
\* CarOwnershipQuery (year, zone), TripEndByDirectionQuery (zone, time_period,
\* year, purpose), and a frame with no named index level
IndexLayouts ==
    {<<"zone", "year">>, <<"year", "zone">>,
     <<"zone", "time_period", "year", "purpose">>, <<>>}

\* every key has a value in every year column (the loader melts whole rows);
\* a query that selects nothing has no rows at all
RowSets ==
    {<<>>} \cup
    UNION {[cols -> [ks -> Values]] :
             cols \in (SUBSET SourceYears) \ {{}}, ks \in (SUBSET Keys) \ {{}}}

RequestLists == UNION {[1..n -> RequestYears] : n \in 0..MaxYears}

InitInterp ==
    /\ wrapped \in {[error |-> "none", index |-> lv, rows |-> r] :
                      lv \in IndexLayouts, r \in RowSets}
    /\ years = <<>>
    /\ out = NoResult
    /\ pc = "ready"
    /\ run = NoRun
    /\ access = <<>>
    /\ db = <<>>
    /\ build = <<>>
    /\ request = <<>>
    /\ executed = 0

\* queries.py: <Query>._data_query(years=...)
InterpolateYears ==
    /\ pc = "ready"
    /\ \E ys \in RequestLists :
         /\ years' = ys
         /\ out' = queries_wrapper_func(wrapped, ys)
    /\ pc' = "queries"
    /\ UNCHANGED <<wrapped, NoStore>>

\* query.py: <Query>._data_query(year=...)
InterpolateYear ==
    /\ pc = "ready"
    /\ \E y \in RequestYears :
         /\ years' = <<y>>
         /\ out' = query_wrapper_func(wrapped, y)
    /\ pc' = "query"
    /\ UNCHANGED <<wrapped, NoStore>>

NextInterp == InterpolateYears \/ InterpolateYear

SpecInterp == InitInterp /\ [][NextInterp]_vars

----------------------------------------------------------------------------
(* Properties of the interpolator (checked under SpecInterp)               *)

Called == pc \in {"queries", "query"}

NonNative(y) == interpolation_years(y).status = "years"

OutOfRange(y) == y < NTEM_LOW_YEAR \/ y > NTEM_HIGH_YEAR

\* the wrapped query has a row for key k in native year n
HasValue(n, k) == n \in DOMAIN wrapped.rows /\ k \in DOMAIN wrapped.rows[n]

\* value(lower) + (value(upper) - value(lower)) / (upper - lower) * (y - lower)
LinearValue(vl, vu, lower, upper, y) ==
    RatAdd(RatMulInt(RatDivInt(RatSub(vu, vl), upper - lower), y - lower), vl)

\* what the entry point that ran returns for key k when asked for year y alone
ValueAt(y, k) ==
    LET r == IF pc = "queries" THEN queries_wrapper_func(wrapped, <<y>>)
             ELSE query_wrapper_func(wrapped, y)
    IN r.blocks[1].rows[k]

\* C1: every value returned for a non-native year y with brackets
\* lower < y < upper equals
\* (value(upper) - value(lower)) / (upper - lower) * (y - lower) + value(lower)
\* at the same key, for the batched and for the single-year interpolator.
C1_LinearInterpolation ==
    out.kind = "table" =>
        \A i \in DOMAIN out.blocks :
            LET b == out.blocks[i]
                iy == interpolation_years(b.year)
            IN iy.status = "years" =>
                 \A k \in DOMAIN b.rows :
                     (HasValue(iy.lower, k) /\ HasValue(iy.upper, k)) =>
                         b.rows[k] = LinearValue(wrapped.rows[iy.lower][k],
                                                 wrapped.rows[iy.upper][k],
                                                 iy.lower, iy.upper, b.year)

\* C2: where value(lower) <= value(upper), the value returned for a non-native
\* year y between them lies in [value(lower), value(upper)] and is not above
\* the value returned for any later year of the same bracket.
C2_MonotoneBetweenBrackets ==
    out.kind = "table" =>
        \A i \in DOMAIN out.blocks :
            LET b == out.blocks[i]
                iy == interpolation_years(b.year)
            IN iy.status = "years" =>
                 \A k \in DOMAIN b.rows :
                     (/\ HasValue(iy.lower, k)
                      /\ HasValue(iy.upper, k)
                      /\ RatLe(wrapped.rows[iy.lower][k], wrapped.rows[iy.upper][k])) =>
                         /\ RatLe(wrapped.rows[iy.lower][k], b.rows[k])
                         /\ RatLe(b.rows[k], wrapped.rows[iy.upper][k])
                         /\ \A y2 \in RequestYears :
                              (/\ y2 > b.year
                               /\ NonNative(y2)
                               /\ interpolation_years(y2).lower = iy.lower) =>
                                  RatLe(b.rows[k], ValueAt(y2, k))

\* C3: for every requested native year the result holds exactly the rows
\* the wrapped query returns for that year, values untouched, whatever other
\* years are requested in the same call.
C3_NativeYearPassThrough ==
    out.kind = "table" =>
        \A i \in DOMAIN out.blocks :
            interpolation_years(years[i]).status = "none" =>
                /\ out.blocks[i].year = years[i]
                /\ out.blocks[i].rows = func_year(wrapped, years[i])

C3_Witness ==
    /\ pc = "queries"
    /\ out.kind = "table"
    /\ Len(years) = 2
    /\ ~NonNative(years[1]) /\ ~NonNative(years[2])
    /\ years[1] > years[2]
    /\ func_year(wrapped, years[1]) # func_year(wrapped, years[2])

\* C4: a multi-year query returns one stack of rows per requested year, in
\* the order the caller listed the years, every stack holding one row for
\* each output key, and year is the last index level of every stack.
C4_RequestedYearOrder ==
    (pc = "queries" /\ out.kind = "table") =>
        /\ Len(out.blocks) = Len(years)
        /\ \A i \in DOMAIN out.blocks :
             /\ out.blocks[i].year = years[i]
             /\ out.blocks[i].index # <<>>
             /\ out.blocks[i].index[Len(out.blocks[i].index)] = "year"
             /\ \A j \in DOMAIN out.blocks :
                  DOMAIN out.blocks[i].rows = DOMAIN out.blocks[j].rows

C4_Witness ==
    /\ pc = "queries"
    /\ out.kind = "table"
    /\ Len(years) = 2
    /\ NonNative(years[1]) /\ ~NonNative(years[2])
    /\ years[1] > years[2]
    /\ wrapped.index = <<"year", "zone">>
    /\ DOMAIN out.blocks[1].rows = Keys

\* C5: if the wrapped query has no rows for the lower or the upper bracket
\* of a requested non-native year, the interpolated query ends in an error.
C5_EmptyBracketAborts ==
    (/\ Called
     /\ \E i \in DOMAIN years :
          /\ NonNative(years[i])
          /\ \/ interpolation_years(years[i]).lower \notin DOMAIN wrapped.rows
             \/ interpolation_years(years[i]).upper \notin DOMAIN wrapped.rows)
        => out.kind = "error"

\* C6 as stated: a request for a year below the lowest or above the highest
\* native year does not fail (it returns values extrapolated from the two
\* nearest native years).
C6_OutOfRangeExtrapolates ==
    (/\ Called
     /\ \E i \in DOMAIN years : OutOfRange(years[i])
     /\ SourceYears \subseteq DOMAIN wrapped.rows
     /\ "year" \in SeqRange(wrapped.index))
        => out.kind = "table"

\* C6 amended: a request that lists a year below the lowest or above the
\* highest native year fails with ValueError: no bracket exists on one side,
\* and no value is returned for any year of the request.
C6_OutOfRangeFails ==
    (Called /\ \E i \in DOMAIN years : OutOfRange(years[i]))
        => (out.kind = "error" /\ out.error = "ValueError" /\ out.blocks = <<>>)

C6_Witness ==
    /\ pc = "queries"
    /\ Len(years) = 2
    /\ years[1] = NTEM_LOW_YEAR
    /\ years[2] = NTEM_LOW_YEAR - 2
    /\ SourceYears \subseteq DOMAIN wrapped.rows
    /\ out.kind = "error"

----------------------------------------------------------------------------
(* The store: build.py writes Nice_NTEM.db from the Access files.          *)
(* A table is the sequence of its rows; a row of a table with an           *)
(* autoincrement key has its position as id.                               *)

NULL == "NULL"

INVALID_ZONE_ID == 9999

NTEM_ZONE_SYSTEM_ID == 1
AUTHORITY_SYSTEM_ID == 2
COUNTY_SYSTEM_ID == 3
REGION_SYSTEM_ID == 4

VERSION == "8.0"

\* Scenarios.id(version): the metadata id a query uses for a scenario
ScenariosId(scenario) ==
    CASE scenario = "core" -> 5
      [] scenario = "high" -> 1
      [] scenario = "low" -> 2
      [] scenario = "regional" -> 3
      [] scenario = "behavioural" -> 6
      [] scenario = "technology" -> 4

\* ---- content of the lookup Access file ----
\* raw TemproZoneID of the fine zones, in the order of tblLookupGeo83
FineZoneIds == <<2, 3, 1>>
FineZoneNames == <<"Zone B", "Zone C", "Zone A">>
FineZoneCodes == <<"N02", "N03", "N01">>

tblLookupGeo83(file) ==
    [i \in DOMAIN FineZoneIds |->
        [ntem_zoning_id |-> FineZoneIds[i], name |-> FineZoneNames[i],
         source_id_or_code |-> FineZoneCodes[i], region_id |-> 1,
         authority_id |-> file.authority_id[FineZoneIds[i]], county_id |-> 1]]

tblLookupRegion ==
    <<[ntem_zoning_id |-> 1, name |-> "North", source_id_or_code |-> "NO"]>>

tblLookupCounty ==
    <<[ntem_zoning_id |-> 1, name |-> "Shire", source_id_or_code |-> NULL]>>

tblLookupAuthority ==
    <<[ntem_zoning_id |-> 1, name |-> "Ayton", source_id_or_code |-> "E01"],
      [ntem_zoning_id |-> 2, name |-> "Beeford", source_id_or_code |-> "E02"]>>

tblLookupPlanning83 ==
    <<[id |-> 1, name |-> "Households"], [id |-> 2, name |-> "Jobs"]>>
tblLookupCarOwnership == <<[id |-> 1, name |-> "No Car"]>>
tblLookupCarAvailability == <<[id |-> 1, name |-> "No Car Available"]>>
tblLookupPurpose == <<[id |-> 1, name |-> "HB Work"]>>
tblLookupTransport == <<[id |-> 1, name |-> "Walk"]>>
tblLookupTimePeriod ==
    <<[id |-> 1, divide_by |-> 3, name |-> "AM peak"],
      [id |-> 2, divide_by |-> 6, name |-> "Inter peak"]>>
NtemTripTypeLookup ==
    <<[id |-> 1, name |-> "Production"], [id |-> 2, name |-> "Attraction"]>>

\* records a lookup file may hold beyond the plain ones: an authority that
\* shares its name, or its code, with Beeford, and a county named like Shire
SameNameAuthority == [ntem_zoning_id |-> 3, name |-> "Beeford", source_id_or_code |-> "E03"]
SameCodeAuthority == [ntem_zoning_id |-> 3, name |-> "Ceeford", source_id_or_code |-> "E02"]
SameNameCounty == [ntem_zoning_id |-> 2, name |-> "Shire", source_id_or_code |-> NULL]

\* Beeford without a ControlAreaID
NullCodeAuthority == [ntem_zoning_id |-> 2, name |-> "Beeford", source_id_or_code |-> NULL]

LookupFiles == {"plain", "same_name", "same_code", "same_county", "null_code"}

\* access_to_df(lookup_path, DB_TO_ACCESS_TABLE_LOOKUP[system], ...)
access_to_df(file, system) ==
    CASE system = "ntem_zoning" -> tblLookupGeo83(file)
      [] system = "region" -> tblLookupRegion
      [] system = "county" ->
            IF file.lookup = "same_county"
            THEN Append(tblLookupCounty, SameNameCounty) ELSE tblLookupCounty
      [] system = "authority" ->
            CASE file.lookup = "same_name" -> Append(tblLookupAuthority, SameNameAuthority)
              [] file.lookup = "same_code" -> Append(tblLookupAuthority, SameCodeAuthority)
              [] file.lookup = "null_code" -> <<tblLookupAuthority[1], NullCodeAuthority>>
              [] OTHER -> tblLookupAuthority

\* "source_id_or_code" in system_data.columns
has_source_id_or_code(system) == system # "county"

\* the pairs of the dict applied one after the other, largest key first: a
\* value already replaced is replaced again
replace_in_turn(v, mapping) ==
    LET RECURSIVE go(_, _)
        go(x, keys) ==
            IF keys = {} THEN x
            ELSE LET k == CHOOSE a \in keys : \A b \in keys : b <= a
                 IN  go(IF x = k THEN mapping[k] ELSE x, keys \ {k})
    IN  go(v, DOMAIN mapping)

\* Series.replace(mapping): a value outside the mapping stays as it is
Replace(v, mapping) == IF v \in DOMAIN mapping THEN mapping[v] ELSE v

to_sql_append(table, rows) == table \o rows
to_sql_replace(table, rows) == rows

\* join_col of a row
join_col(system, row) ==
    IF has_source_id_or_code(system) THEN row.source_id_or_code ELSE row.name

\* no two entries of a key column are equal
IsUnique(column) == \A a, b \in DOMAIN column : column[a] = column[b] => a = b

\* a merge that validates nothing
many_to_many(left, right) == TRUE

\* DataFrame.merge(validate="one_to_one"): the merge keys are unique in both frames
one_to_one(left, right) == IsUnique(left) /\ IsUnique(right)

\* a mapping that pairs the raw ids with the Zones ids by rank
id_lookup_by_rank(system, zones_out, ids, system_data) ==
    LET raw_ids == {system_data[j].ntem_zoning_id : j \in DOMAIN system_data}
        rank(r) == Cardinality({x \in raw_ids : x <= r})
    IN  [raw \in raw_ids |->
            CHOOSE i \in ids : Cardinality({x \in ids : x <= i}) = rank(raw)]

\* the left merge on join_col and set_index(...)["id"].to_dict(): the id of
\* the Zones row with the natural key of the raw record; of several rows
\* under one raw id the last one stays in the dict
id_lookup_by_key(system, zones_out, ids, system_data) ==
    LET raw_ids == {system_data[j].ntem_zoning_id : j \in DOMAIN system_data}
        id_of(raw) == {i \in ids : \E j \in DOMAIN system_data :
                          /\ system_data[j].ntem_zoning_id = raw
                          /\ join_col(system, zones_out[i]) = join_col(system, system_data[j])}
    IN  [raw \in {r \in raw_ids : id_of(r) # {}} |-> Max(id_of(raw))]

\* build.py _process_geo_lookup_data: the Zones table after the insert, the
\* mapping raw id -> Zones.id, and whether the one_to_one merge raised
process_geo_lookup_data(zones, system, system_id, file) ==
    LET system_data == access_to_df(file, system)
        written == [i \in DOMAIN system_data |->
                      [zone_type_id |-> system_id,
                       name |-> system_data[i].name,
                       source_id_or_code |->
                          IF has_source_id_or_code(system)
                          THEN system_data[i].source_id_or_code ELSE NULL]]
        zones_out == to_sql_append(zones, written)
        ids == {i \in DOMAIN zones_out : zones_out[i].zone_type_id = system_id}
        left == [i \in ids |-> join_col(system, zones_out[i])]
        right == [j \in DOMAIN system_data |-> join_col(system, system_data[j])]
    IN  [error |-> ~one_to_one(left, right),
         zones |-> zones_out,
         id_lookup |-> id_lookup_by_key(system, zones_out, ids, system_data)]

ZoneType(name, source, version) == [name |-> name, source |-> source, version |-> version]

\* one pass of the loop of create_geo_lookup_table: the crosswalk rows of a system
system_lookup(lookup_data, system, id_lookup, id) ==
    [i \in DOMAIN lookup_data |->
        [from_zone_id |-> lookup_data[i].from_zone_id,
         from_zone_type_id |-> lookup_data[i].from_zone_type_id,
         to_zone_id |-> Replace(CASE system = "region" -> lookup_data[i].region_id
                                  [] system = "county" -> lookup_data[i].county_id
                                  [] system = "authority" -> lookup_data[i].authority_id,
                                id_lookup),
         to_zone_type_id |-> id]]

\* build.py create_geo_lookup_table: the zone types, zones and crosswalk it
\* leaves behind and the fine-zone mapping it returns
create_geo_lookup_table(store, file, source, version) ==
    LET first == Len(store.zone_type_list)
        zone_type_id == first + 1
        authority_type_id == first + 2
        county_type_id == first + 3
        region_type_id == first + 4
        zone_type_list == store.zone_type_list \o
                            <<ZoneType("zone", source, version),
                              ZoneType("authority", source, version),
                              ZoneType("county", source, version),
                              ZoneType("region", source, version)>>
        fine == process_geo_lookup_data(store.zones, "ntem_zoning", zone_type_id, file)
        raw_data == access_to_df(file, "ntem_zoning")
        lookup_data == [i \in DOMAIN raw_data |->
                          [from_zone_id |-> Replace(raw_data[i].ntem_zoning_id, fine.id_lookup),
                           from_zone_type_id |-> zone_type_id,
                           region_id |-> raw_data[i].region_id,
                           county_id |-> raw_data[i].county_id,
                           authority_id |-> raw_data[i].authority_id]]
        \* the loop over system_id_lookup, in the order of the dict
        region == process_geo_lookup_data(fine.zones, "region", region_type_id, file)
        geo1 == to_sql_replace(store.geo_lookup,
                    system_lookup(lookup_data, "region", region.id_lookup, region_type_id))
        county == process_geo_lookup_data(region.zones, "county", county_type_id, file)
        geo2 == to_sql_replace(geo1,
                    system_lookup(lookup_data, "county", county.id_lookup, county_type_id))
        authority == process_geo_lookup_data(county.zones, "authority", authority_type_id, file)
        geo3 == to_sql_replace(geo2,
                    system_lookup(lookup_data, "authority", authority.id_lookup, authority_type_id))
    IN  [error |-> fine.error \/ region.error \/ county.error \/ authority.error,
         zone_type_list |-> zone_type_list,
         zones |-> authority.zones,
         geo_lookup |-> geo3,
         zones_id_lookup |-> fine.id_lookup,
         id_lookups |-> [system \in {"ntem_zoning", "region", "county", "authority"} |->
                           CASE system = "ntem_zoning" -> fine.id_lookup
                             [] system = "region" -> region.id_lookup
                             [] system = "county" -> county.id_lookup
                             [] system = "authority" -> authority.id_lookup]]

\* ---- content of a scenario's Access data file ----
\* ZoneID of the rows of each data table, in file order
DataZoneIds == FineZoneIds

YearColumns == <<NTEM_LOW_YEAR, NTEM_LOW_YEAR + NTEM_YEAR_STEP>>

PlanningKeys == <<[planning_data_type |-> 1], [planning_data_type |-> 2]>>
CarOwnershipKeys == <<[car_ownership_type |-> 1]>>
CarAvailabilityKeys == <<[purpose |-> 1, mode |-> 1, car_availability_type |-> 1]>>
DirectionKeys ==
    <<[purpose |-> 1, mode |-> 1, time_period |-> 1, trip_type |-> 1],
      [purpose |-> 1, mode |-> 1, time_period |-> 1, trip_type |-> 2],
      [purpose |-> 1, mode |-> 1, time_period |-> 2, trip_type |-> 1],
      [purpose |-> 1, mode |-> 1, time_period |-> 2, trip_type |-> 2]>>

AccessKeys(access_table_name) ==
    CASE access_table_name = "Planning" -> PlanningKeys
      [] access_table_name = "CarOwnership" -> CarOwnershipKeys
      [] access_table_name = "TripEndDataByCarAvailability" -> CarAvailabilityKeys
      [] access_table_name = "TripEndDataByDirection" -> DirectionKeys

\* the rows of a data table: every zone of the file with every key combination
AccessRows(file, access_table_name) ==
    LET keys == AccessKeys(access_table_name)
        n == Len(keys)
    IN  [i \in 1..(Len(file.zones) * n) |->
            keys[((i - 1) % n) + 1] @@ [zone_id |-> file.zones[((i - 1) \div n) + 1]]]

KeyWeight(access_table_name, row) ==
    CASE access_table_name = "Planning" -> row.planning_data_type - 1
      [] access_table_name = "CarOwnership" -> 1
      [] access_table_name = "TripEndDataByCarAvailability" -> 2
      [] access_table_name = "TripEndDataByDirection" ->
            2 * (row.time_period - 1) + (row.trip_type - 1)

\* the cell of a data table under a year column: the figures grow with the
\* zone (scaled by file.base), the year, the key and the scenario
AccessValue(file, scenario, access_table_name, row, year) ==
    file.base * row.zone_id
      + (year - NTEM_LOW_YEAR) \div NTEM_YEAR_STEP
      + KeyWeight(access_table_name, row)
      + (IF scenario = "high" THEN 1 ELSE 0)

\* a filter that lets every row through
keep_all_zones(data) == data

\* data[data["zone_id"] != INVALID_ZONE_ID]
drop_invalid_zone(data) == SelectSeq(data, LAMBDA r : r.zone_id # INVALID_ZONE_ID)

\* a reshape that keeps the first year column only
melt_first_column(data, value_vars) ==
    [k \in 1..Len(data) |-> [row |-> data[k], year |-> value_vars[1]]]

\* DataFrame.melt(id_columns, var_name="year"): one row per row of the data
\* and year column, the rows of the first column first
melt(data, value_vars) ==
    LET n == Len(data)
    IN  [k \in 1..(n * Len(value_vars)) |->
            [row |-> data[((k - 1) % n) + 1],
             year |-> value_vars[((k - 1) \div n) + 1]]]

\* build.py _process_ntem_access_file: the rows appended to out_table
process_ntem_access_file(file, scenario, access_table_name, metadata_id, id_substitution) ==
    LET data == AccessRows(file, access_table_name)
        kept == drop_invalid_zone(data)
        melted == melt(kept, YearColumns)
    IN  [k \in DOMAIN melted |->
            LET r == melted[k].row
                year == melted[k].year
            IN  [zone_id |-> Replace(r.zone_id, id_substitution)] @@ r @@
                [metadata_id |-> metadata_id,
                 zone_type_id |-> 1,
                 year |-> year,
                 value |-> Int2Rat(AccessValue(file, scenario, access_table_name, r, year))]]

\* build.py process_scenario
process_scenario(store, file, scenario, metadata_id, id_sub) ==
    [store EXCEPT
       !.planning = to_sql_append(@,
            process_ntem_access_file(file, scenario, "Planning", metadata_id, id_sub)),
       !.car_ownership = to_sql_append(@,
            process_ntem_access_file(file, scenario, "CarOwnership", metadata_id, id_sub)),
       !.trip_end_data_by_car_availability = to_sql_append(@,
            process_ntem_access_file(file, scenario, "TripEndDataByCarAvailability",
                                     metadata_id, id_sub)),
       !.trip_end_data_by_direction = to_sql_append(@,
            process_ntem_access_file(file, scenario, "TripEndDataByDirection",
                                     metadata_id, id_sub))]

\* build.py create_lookup_tables
create_lookup_tables(store) ==
    [store EXCEPT
       !.car_availability_types = to_sql_append(@, tblLookupCarAvailability),
       !.car_ownership_types = to_sql_append(@, tblLookupCarOwnership),
       !.mode_types = to_sql_append(@, tblLookupTransport),
       !.purpose_types = to_sql_append(@, tblLookupPurpose),
       !.time_period_types = to_sql_append(@, tblLookupTimePeriod),
       !.trip_type_types = to_sql_append(@, NtemTripTypeLookup),
       !.planning_data_types = to_sql_append(@, tblLookupPlanning83)]

\* the database file before build_db has run
NoTables ==
    [created |-> FALSE,
     zone_type_list |-> <<>>, zones |-> <<>>, geo_lookup |-> <<>>, metadata |-> <<>>,
     planning |-> <<>>, car_ownership |-> <<>>,
     trip_end_data_by_car_availability |-> <<>>, trip_end_data_by_direction |-> <<>>,
     car_availability_types |-> <<>>, car_ownership_types |-> <<>>, mode_types |-> <<>>,
     purpose_types |-> <<>>, time_period_types |-> <<>>, trip_type_types |-> <<>>,
     planning_data_types |-> <<>>]

----------------------------------------------------------------------------
(* The queries.  A statement is evaluated as SQL evaluates it: the joined  *)
(* rows are tuples of row positions, so two rows with equal content stay   *)
(* two rows, and a GROUP BY sums the joined rows of each group.            *)

\* an optional argument: None, or Some(x)
None == <<>>
Some(x) == <<x>>

\* the value of one pair of the set, the others left out of the sum
RatAny(S) == IF S = {} THEN Int2Rat(0) ELSE (CHOOSE x \in S : TRUE)[2]

\* SQL sum(): the sum of the values of a set of <<tag, value>> pairs
RECURSIVE RatSum(_)
RatSum(S) ==
    IF S = {} THEN Int2Rat(0)
    ELSE LET x == CHOOSE x \in S : TRUE
         IN  RatAdd(x[2], RatSum(S \ {x}))

\* DataBaseHandler.query_to_pandas: the rows of the statement, as they are
query_to_pandas(result) == result

\* name of the row of a lookup table with the given id
NameOf(table, id) == table[CHOOSE i \in DOMAIN table : table[i].id = id].name
HasId(table, id) == \E i \in DOMAIN table : table[i].id = id

\* build.py convert_to_avg_period: UPDATE trip_end_data_by_direction SET
\* value = value / divide_by, for the rows whose time period has a
\* TimePeriodTypes row
convert_to_avg_period(store) ==
    [store EXCEPT !.trip_end_data_by_direction =
        [i \in DOMAIN @ |->
            IF HasId(store.time_period_types, @[i].time_period)
            THEN [@[i] EXCEPT !.value =
                    RatDivInt(@, store.time_period_types[
                        CHOOSE t \in DOMAIN store.time_period_types :
                            store.time_period_types[t].id =
                                store.trip_end_data_by_direction[i].time_period].divide_by)]
            ELSE @[i]]]

\* a statement that reads the rows and normalises the directional trip ends
select_converting(store) == convert_to_avg_period(store)

\* sqlalchemy.select(...) run through the handler: the statements of the
\* queries are SELECTs, the tables stay as they are
select(store) == store

\* queries.py _zone_subset: the fine zones under the named zones
zone_subset(store, zone_names, zoning_id) ==
    {store.geo_lookup[g].from_zone_id : g \in
        {g \in DOMAIN store.geo_lookup :
            LET r == store.geo_lookup[g]
            IN  /\ r.to_zone_id \in DOMAIN store.zones
                /\ r.to_zone_type_id = store.zones[r.to_zone_id].zone_type_id
                /\ store.zones[r.to_zone_id].name \in zone_names
                /\ store.zones[r.to_zone_id].zone_type_id = zoning_id}}

\* both halves of the spatial filter were given
HasFilter(req) == req.filter_zoning_system # None /\ req.filter_zone_names # None
\* exactly one half of the spatial filter was given
LoneFilter(req) ==
    \/ req.filter_zoning_system # None /\ req.filter_zone_names = None
    \/ req.filter_zoning_system = None /\ req.filter_zone_names # None

InZoneSubset(store, req, zone_id) ==
    zone_id \in zone_subset(store, req.filter_zone_names[1], req.filter_zoning_system[1])

\* what a _data_query hands to the interpolator
Raised(e) == [error |-> e, index |-> <<>>, rows |-> <<>>, statements |-> 0]
Frame(index, rows) == [error |-> "none", index |-> index, rows |-> rows, statements |-> 1]

\* the zone label and DataFrame.pivot(index=[zone, year], columns=column):
\* data is a set of [tag, zone_code, zone_name, column, year, value]
pivot(data, index) ==
    LET isna == \E r \in data : r.zone_code = NULL
        zone(r) == IF isna THEN r.zone_name ELSE r.zone_code
        duplicates == \E r1, r2 \in data :
                         /\ r1 # r2 /\ zone(r1) = zone(r2)
                         /\ r1.year = r2.year /\ r1.column = r2.column
        cell(y, k) == CHOOSE r \in data : r.year = y /\ zone(r) = k[1] /\ r.column = k[2]
    IN  IF duplicates
        THEN [error |-> "ValueError", index |-> index, rows |-> <<>>, statements |-> 1]
        ELSE Frame(index,
                [y \in {r.year : r \in data} |->
                    [k \in {<<zone(r), r.column>> : r \in {r \in data : r.year = y}} |->
                        cell(y, k).value]])

\* queries.py PlanningQuery._data_query (the wrapped function)
planning_data_query(store, req, query_years_set) ==
    LET data_filter(p) ==
            /\ p.year \in query_years_set
            /\ p.metadata_id = req.metadata_id
            /\ HasId(store.planning_data_types, p.planning_data_type)
            /\ (HasFilter(req) => InZoneSubset(store, req, p.zone_id))
        fine == {i \in DOMAIN store.planning :
                    LET p == store.planning[i]
                    IN  /\ data_filter(p)
                        /\ p.zone_id \in DOMAIN store.zones
                        /\ p.zone_type_id = store.zones[p.zone_id].zone_type_id}
        joined == {ig \in (DOMAIN store.planning) \X (DOMAIN store.geo_lookup) :
                    LET p == store.planning[ig[1]]
                        g == store.geo_lookup[ig[2]]
                    IN  /\ data_filter(p)
                        /\ g.from_zone_id = p.zone_id
                        /\ g.from_zone_type_id = NTEM_ZONE_SYSTEM_ID
                        /\ g.to_zone_type_id = req.output_zoning
                        /\ g.to_zone_id \in DOMAIN store.zones}
        group(ig) == <<store.geo_lookup[ig[2]].to_zone_id,
                       store.planning[ig[1]].planning_data_type,
                       store.planning[ig[1]].year>>
        data == IF req.output_zoning = NTEM_ZONE_SYSTEM_ID
                THEN {[tag |-> <<i>>,
                       zone_code |-> store.zones[store.planning[i].zone_id].source_id_or_code,
                       zone_name |-> store.zones[store.planning[i].zone_id].name,
                       column |-> NameOf(store.planning_data_types,
                                         store.planning[i].planning_data_type),
                       year |-> store.planning[i].year,
                       value |-> store.planning[i].value] : i \in fine}
                ELSE {[tag |-> k,
                       zone_code |-> store.zones[k[1]].source_id_or_code,
                       zone_name |-> store.zones[k[1]].name,
                       column |-> NameOf(store.planning_data_types, k[2]),
                       year |-> k[3],
                       value |-> RatSum({<<ig, store.planning[ig[1]].value>> :
                                           ig \in {x \in joined : group(x) = k}})] :
                      k \in {group(ig) : ig \in joined}}
    IN  pivot(query_to_pandas(data), <<"zone", "year">>)

\* queries.py CarOwnershipQuery._data_query (the wrapped function)
car_ownership_data_query(store, req, query_years_set) ==
    LET data_filter(c) ==
            /\ c.year \in query_years_set
            /\ c.metadata_id = req.metadata_id
            /\ (HasFilter(req) => InZoneSubset(store, req, c.zone_id))
        fine == {i \in DOMAIN store.car_ownership :
                    LET c == store.car_ownership[i]
                    IN  /\ data_filter(c)
                        /\ HasId(store.car_ownership_types, c.car_ownership_type)
                        /\ c.zone_id \in DOMAIN store.zones
                        /\ store.zones[c.zone_id].zone_type_id = c.zone_type_id}
        joined == {ig \in (DOMAIN store.car_ownership) \X (DOMAIN store.geo_lookup) :
                    LET c == store.car_ownership[ig[1]]
                        g == store.geo_lookup[ig[2]]
                    IN  /\ data_filter(c)
                        /\ HasId(store.car_ownership_types, c.car_ownership_type)
                        /\ g.from_zone_id = c.zone_id
                        /\ g.from_zone_type_id = c.zone_type_id
                        /\ g.to_zone_id \in DOMAIN store.zones
                        /\ store.zones[g.to_zone_id].zone_type_id = g.to_zone_type_id
                        /\ g.to_zone_type_id = req.output_zoning
                        /\ g.from_zone_type_id = NTEM_ZONE_SYSTEM_ID}
        group(ig) == <<store.geo_lookup[ig[2]].to_zone_id,
                       store.car_ownership[ig[1]].car_ownership_type,
                       store.car_ownership[ig[1]].year>>
        data == IF req.output_zoning = NTEM_ZONE_SYSTEM_ID
                THEN {[tag |-> <<i>>,
                       zone_code |-> store.zones[store.car_ownership[i].zone_id].source_id_or_code,
                       zone_name |-> store.zones[store.car_ownership[i].zone_id].name,
                       column |-> NameOf(store.car_ownership_types,
                                         store.car_ownership[i].car_ownership_type),
                       year |-> store.car_ownership[i].year,
                       value |-> store.car_ownership[i].value] : i \in fine}
                ELSE {[tag |-> k,
                       zone_code |-> store.zones[k[1]].source_id_or_code,
                       zone_name |-> store.zones[k[1]].name,
                       column |-> NameOf(store.car_ownership_types, k[2]),
                       year |-> k[3],
                       value |-> RatSum({<<ig, store.car_ownership[ig[1]].value>> :
                                           ig \in {x \in joined : group(x) = k}})] :
                      k \in {group(ig) : ig \in joined}}
    IN  pivot(query_to_pandas(data), <<"year", "zone">>)

\* queries.py TripEndByDirectionQuery.__init__: the attribute is set to None
\* and the argument is only read when the attribute is not None
init_time_period_filter(time_period_filter) ==
    LET attribute == None
    IN  IF attribute # None THEN time_period_filter ELSE attribute

\* the index key of a grouped trip-end row
trip_end_key(req, zone, leading, row) ==
    <<zone>> \o leading
      \o (IF req.aggregate_purpose THEN <<>> ELSE <<row.purpose>>)
      \o (IF req.aggregate_mode THEN <<>> ELSE <<row.mode>>)

trip_end_index(req, leading) ==
    leading
      \o (IF req.aggregate_purpose THEN <<>> ELSE <<"purpose">>)
      \o (IF req.aggregate_mode THEN <<>> ELSE <<"mode">>)

\* the value columns of the directional statement: the sum labelled "value"
direction_value_columns(req) == <<"value">>

\* queries.py TripEndByDirectionQuery._data_query (the wrapped function);
\* the requests keep aggregate_mode, so the statement has its GROUP BY
direction_data_query(store, req, query_years_set) ==
    LET time_period_filter == init_time_period_filter(req.time_period_filter)
        base_filter(d) ==
            /\ d.year \in query_years_set
            /\ d.metadata_id = req.metadata_id
            /\ d.trip_type \in req.trip_type
            /\ (HasFilter(req) => InZoneSubset(store, req, d.zone_id))
            /\ (req.purpose_filter # None => d.purpose \in req.purpose_filter[1])
            /\ (req.mode_filter # None => d.mode \in req.mode_filter[1])
            /\ (time_period_filter # None => d.time_period \in time_period_filter[1])
        divide_by(d) ==
            store.time_period_types[CHOOSE t \in DOMAIN store.time_period_types :
                                       store.time_period_types[t].id = d.time_period].divide_by
        fine == {i \in DOMAIN store.trip_end_data_by_direction :
                    /\ base_filter(store.trip_end_data_by_direction[i])
                    /\ HasId(store.time_period_types,
                             store.trip_end_data_by_direction[i].time_period)}
        coarse == {ig \in (DOMAIN store.trip_end_data_by_direction) \X (DOMAIN store.geo_lookup) :
                    LET d == store.trip_end_data_by_direction[ig[1]]
                        g == store.geo_lookup[ig[2]]
                    IN  /\ base_filter(d)
                        /\ HasId(store.time_period_types, d.time_period)
                        /\ g.from_zone_id = d.zone_id
                        /\ g.from_zone_type_id = NTEM_ZONE_SYSTEM_ID
                        /\ g.to_zone_type_id = req.output_zoning
                        /\ g.to_zone_id \in DOMAIN store.zones}
        joined == IF req.output_zoning = NTEM_ZONE_SYSTEM_ID
                  THEN {<<i, 0>> : i \in fine} ELSE coarse
        row(ig) == store.trip_end_data_by_direction[ig[1]]
        zone(ig) == IF req.output_zoning = NTEM_ZONE_SYSTEM_ID
                    THEN row(ig).zone_id ELSE store.geo_lookup[ig[2]].to_zone_id
        key(ig) == trip_end_key(req, zone(ig), <<row(ig).time_period>>, row(ig))
        value(y, k) ==
            RatSum({<<ig, RatDivInt(row(ig).value, divide_by(row(ig)))>> :
                      ig \in {x \in joined : row(x).year = y /\ key(x) = k}})
    IN  IF LoneFilter(req) THEN Raised("ValueError")
        ELSE Frame(trip_end_index(req, <<"zone", "time_period", "year">>),
                   query_to_pandas(
                     [y \in {row(ig).year : ig \in joined} |->
                        [k \in {key(ig) : ig \in {x \in joined : row(x).year = y}} |->
                            value(y, k)]]))

\* queries.py TripEndByCarAvailbilityQuery._data_query (the wrapped function):
\* the coarse statement joins the crosswalk to the directional table, which
\* no condition ties to the car-availability rows; no index is set
car_availability_data_query(store, req, query_years_set) ==
    LET base_filter(c) ==
            /\ c.year \in query_years_set
            /\ c.metadata_id = req.metadata_id
            /\ (HasFilter(req) => InZoneSubset(store, req, c.zone_id))
            /\ (req.purpose_filter # None => c.purpose \in req.purpose_filter[1])
            /\ (req.mode_filter # None => c.mode \in req.mode_filter[1])
        selected == {i \in DOMAIN store.trip_end_data_by_car_availability :
                        base_filter(store.trip_end_data_by_car_availability[i])}
        row(i) == store.trip_end_data_by_car_availability[i]
        links == {dg \in (DOMAIN store.trip_end_data_by_direction) \X (DOMAIN store.geo_lookup) :
                    LET d == store.trip_end_data_by_direction[dg[1]]
                        g == store.geo_lookup[dg[2]]
                    IN  /\ g.from_zone_id = d.zone_id
                        /\ g.from_zone_type_id = NTEM_ZONE_SYSTEM_ID
                        /\ g.to_zone_type_id = req.output_zoning
                        /\ g.to_zone_id \in DOMAIN store.zones}
        zones_out == IF req.output_zoning = NTEM_ZONE_SYSTEM_ID
                     THEN {row(i).zone_id : i \in selected}
                     ELSE {store.geo_lookup[dg[2]].to_zone_id : dg \in links}
        in_zone(i, z) == req.output_zoning = NTEM_ZONE_SYSTEM_ID => row(i).zone_id = z
        times(z) == IF req.output_zoning = NTEM_ZONE_SYSTEM_ID THEN 1
                    ELSE Cardinality({dg \in links : store.geo_lookup[dg[2]].to_zone_id = z})
        key(i, z) == trip_end_key(req, z, <<>>, row(i))
        keys(y) == {key(i, z) : i \in {x \in selected : row(x).year = y}, z \in zones_out}
        value(y, k) ==
            RatMulInt(RatSum({<<i, row(i).value>> :
                                i \in {x \in selected :
                                         /\ row(x).year = y
                                         /\ in_zone(x, k[1])
                                         /\ key(x, k[1]) = k}}),
                      times(k[1]))
        result_years == {y \in {row(i).year : i \in selected} :
                            \E i \in selected, z \in zones_out :
                                row(i).year = y /\ in_zone(i, z)}
    IN  IF LoneFilter(req) THEN Raised("ValueError")
        ELSE Frame(<<>>,
                   query_to_pandas(
                     [y \in result_years |->
                        [k \in {x \in keys(y) : \E i \in selected :
                                   row(i).year = y /\ in_zone(i, x[1]) /\ key(i, x[1]) = x} |->
                            value(y, k)]]))

\* queries.py TripEndByDirectionQuery.apply_lookups on one index key, when
\* every zone of the output zoning has a code: each level is renamed through
\* its dict, and a value outside the dict stays as it is
apply_lookups(store, req, index, k) ==
    LET zones_lookup == {z \in DOMAIN store.zones :
                            store.zones[z].zone_type_id = req.output_zoning}
        rename(level, v) ==
            CASE level = "zone" ->
                    IF v \in zones_lookup
                    THEN store.zones[v].source_id_or_code ELSE v
              [] level = "time_period" ->
                    IF req.output_names /\ HasId(store.time_period_types, v)
                    THEN NameOf(store.time_period_types, v) ELSE v
              [] level = "purpose" ->
                    IF req.output_names /\ HasId(store.purpose_types, v)
                    THEN NameOf(store.purpose_types, v) ELSE v
              [] level = "mode" ->
                    IF req.output_names /\ HasId(store.mode_types, v)
                    THEN NameOf(store.mode_types, v) ELSE v
              [] OTHER -> v
    IN  [i \in DOMAIN k |-> rename(index[i], k[i])]

\* query.py PlanningQuery._data_query (the wrapped function) for one year:
\* one statement, labelled and pivoted on its own
planning_year_statement(store, req, year) ==
    LET data_filter(p) ==
            /\ p.year = year
            /\ p.metadata_id = req.metadata_id
            /\ p.zone_id \in DOMAIN store.zones
            /\ HasId(store.planning_data_types, p.planning_data_type)
            /\ (HasFilter(req) => InZoneSubset(store, req, p.zone_id))
        fine == {i \in DOMAIN store.planning : data_filter(store.planning[i])}
        \* Zones.id equals Planning.zone_id and GeoLookup.to_zone_id at once
        joined == {ig \in (DOMAIN store.planning) \X (DOMAIN store.geo_lookup) :
                    LET p == store.planning[ig[1]]
                        g == store.geo_lookup[ig[2]]
                    IN  /\ data_filter(p)
                        /\ g.from_zone_id = p.zone_id
                        /\ g.from_zone_type_id = NTEM_ZONE_SYSTEM_ID
                        /\ g.to_zone_type_id = req.output_zoning
                        /\ p.zone_id = g.to_zone_id}
        group(ig) == <<store.geo_lookup[ig[2]].to_zone_id,
                       store.planning[ig[1]].planning_data_type>>
        data == IF req.output_zoning = NTEM_ZONE_SYSTEM_ID
                THEN {[tag |-> <<i>>,
                       zone_code |-> store.zones[store.planning[i].zone_id].source_id_or_code,
                       zone_name |-> store.zones[store.planning[i].zone_id].name,
                       column |-> NameOf(store.planning_data_types,
                                         store.planning[i].planning_data_type),
                       year |-> year,
                       value |-> store.planning[i].value] : i \in fine}
                ELSE {[tag |-> k,
                       zone_code |-> store.zones[k[1]].source_id_or_code,
                       zone_name |-> store.zones[k[1]].name,
                       column |-> NameOf(store.planning_data_types, k[2]),
                       year |-> year,
                       value |-> RatSum({<<ig, store.planning[ig[1]].value>> :
                                           ig \in {x \in joined : group(x) = k}})] :
                      k \in {group(ig) : ig \in joined}}
    IN  pivot(query_to_pandas(data), <<"zone">>)

\* the statements the single-year interpolator may run, tabulated by year
planning_year_data_query(store, req, year) ==
    LET ys == query_years(<<year>>)
        failed == {y \in ys : planning_year_statement(store, req, y).error # "none"}
    IN  IF failed # {}
        THEN [error |-> "ValueError", index |-> <<"zone">>, rows |-> <<>>,
              statements |-> Cardinality(ys)]
        ELSE [error |-> "none", index |-> <<"zone">>,
              rows |-> [y \in {x \in ys : x \in DOMAIN planning_year_statement(store, req, x).rows}
                          |-> planning_year_statement(store, req, y).rows[y]],
              statements |-> Cardinality(ys)]

\* DataFrame.drop(columns=names) on every block of a result
drop_columns(result, names) ==
    LET columns == UNION {{k[2] : k \in DOMAIN result.blocks[i].rows} :
                            i \in DOMAIN result.blocks}
    IN  IF result.kind # "table" THEN result
        ELSE IF ~(names \subseteq columns) THEN Raise("KeyError")
        ELSE Table([i \in DOMAIN result.blocks |->
                      [result.blocks[i] EXCEPT !.rows =
                          [k \in {x \in DOMAIN @ : x[2] \notin names} |-> @[k]]]])

\* PlanningQuery.query after _data_query: the column groups switched off
planning_drop(result, req) ==
    LET r1 == IF ~req.residential
              THEN drop_columns(result, {"16 to 74", "Less than 16", "75 +"}) ELSE result
        r2 == IF ~req.employment THEN drop_columns(r1, {"Jobs", "Workers"}) ELSE r1
    IN  IF ~req.household THEN drop_columns(r2, {"Households"}) ELSE r2

\* TripEndByDirectionQuery.query after _data_query: the index renamed.  When
\* a zone of the output zoning has no code the zone mapper is a DataFrame,
\* neither a mapping nor a function, and rename() fails when it calls it
direction_lookups(store, req, result) ==
    IF result.kind # "table" THEN result
    ELSE IF \E z \in DOMAIN store.zones :
               /\ store.zones[z].zone_type_id = req.output_zoning
               /\ store.zones[z].source_id_or_code = NULL
    THEN Raise("TypeError")
    ELSE Table([i \in DOMAIN result.blocks |->
                  [result.blocks[i] EXCEPT !.rows =
                      [k \in {apply_lookups(store, req, result.blocks[i].index, x) :
                                x \in DOMAIN @} |->
                          @[CHOOSE x \in DOMAIN @ :
                               apply_lookups(store, req, result.blocks[i].index, x) = k]]]])

\* statements run by apply_lookups
lookup_statements(store, req) ==
    1 + (IF req.output_names
         THEN 1 + (IF req.aggregate_purpose THEN 0 ELSE 1)
                + (IF req.aggregate_mode THEN 0 ELSE 1)
         ELSE 0)

\* statements a query has executed when it returns or raises
statements_executed(w, ys) ==
    IF \E i \in DOMAIN ys : interpolation_years(ys[i]).status = "raise"
    THEN 0 ELSE w.statements

----------------------------------------------------------------------------
(* build_db, then one query against the database it built                  *)

\* the orders in which build_db finds the scenario files
ScenarioOrders == {<<"high", "low">>, <<"low", "high">>, <<"low">>}

QueryScenarios == {"high", "low"}

\* the year arguments of the queries against the store
StoreYearLists ==
    {<<NTEM_LOW_YEAR>>, <<NTEM_LOW_YEAR + 2>>,
     <<NTEM_LOW_YEAR + NTEM_YEAR_STEP, NTEM_LOW_YEAR>>}
StoreYears == {NTEM_LOW_YEAR, NTEM_LOW_YEAR + 2}

Zonings == {NTEM_ZONE_SYSTEM_ID, AUTHORITY_SYSTEM_ID, COUNTY_SYSTEM_ID, REGION_SYSTEM_ID}

\* (filter_zoning_system, filter_zone_names) arguments
FilterPairs ==
    {<<None, None>>,
     <<Some(AUTHORITY_SYSTEM_ID), None>>,
     <<None, Some({"Ayton"})>>,
     <<Some(AUTHORITY_SYSTEM_ID), Some({"Ayton"})>>,
     <<Some(NTEM_ZONE_SYSTEM_ID), Some({"Zone A", "Zone C"})>>,
     <<Some(COUNTY_SYSTEM_ID), Some({"Shire"})>>,
     <<Some(AUTHORITY_SYSTEM_ID), Some({"Nowhere"})>>}

\* QueryParams.__init__ and the defaults of the subclasses' arguments
QueryParams(type, scenario, output_zoning, filter) ==
    [type |-> type,
     scenario |-> scenario,
     metadata_id |-> ScenariosId(scenario),
     output_zoning |-> output_zoning,
     filter_zoning_system |-> filter[1],
     filter_zone_names |-> filter[2],
     residential |-> TRUE, employment |-> TRUE, household |-> TRUE,
     trip_type |-> {1, 2},
     purpose_filter |-> None, aggregate_purpose |-> TRUE,
     mode_filter |-> None, aggregate_mode |-> TRUE,
     time_period_filter |-> None, output_names |-> TRUE]

Requests(type) ==
    {QueryParams(type, s, z, f) : s \in QueryScenarios, z \in Zonings, f \in FilterPairs}

PlanningRequests ==
    Requests("Planning") \cup
    {[r EXCEPT !.household = FALSE] : r \in {x \in Requests("Planning") :
                                                x.filter_zoning_system = None}}

DirectionRequests ==
    Requests("TripEndByDirection") \cup
    {[r EXCEPT !.aggregate_purpose = FALSE] :
        r \in {x \in Requests("TripEndByDirection") : x.filter_zoning_system = None}} \cup
    {[r EXCEPT !.time_period_filter = Some({1})] :
        r \in {x \in Requests("TripEndByDirection") : x.filter_zone_names = None}} \cup
    {[r EXCEPT !.trip_type = {1}] :
        r \in {x \in Requests("TripEndByDirection") : x.filter_zone_names = None}}

Init ==
    /\ access \in {[authority_id |-> a, base |-> b, files |-> f,
                     lookup |-> "plain", zones |-> DataZoneIds, broken |-> {}] :
                     a \in [{FineZoneIds[i] : i \in DOMAIN FineZoneIds} -> {1, 2}],
                     b \in 0..MaxValue,
                     f \in ScenarioOrders}
    /\ db = NoTables
    /\ build = [pc |-> "start", todo |-> <<>>, id_sub |-> <<>>, id_lookups |-> <<>>,
                metadata_id |-> 0, converted |-> 0, runs |-> 1]
    /\ request = <<>>
    /\ executed = 0
    /\ wrapped = <<>>
    /\ years = <<>>
    /\ out = NoResult
    /\ pc = "ready"
    /\ run = NoRun

NoQuery == <<wrapped, years, out, pc, request, executed, run>>

\* Base.metadata.drop_all: the clean-database mode empties the file
drop_all(store) == NoTables

\* Base.metadata.create_all, checkfirst = True: existing tables are kept
create_all_checkfirst(store) ==
    [error |-> FALSE, store |-> [store EXCEPT !.created = TRUE]]

\* Base.metadata.create_all(checkfirst=False): CREATE TABLE raises on a file
\* that already holds the tables
create_all(store) ==
    [error |-> store.created, store |-> [store EXCEPT !.created = TRUE]]

\* build_db up to its first commit: tables, lookup tables, zones, crosswalk
BuildLookups ==
    /\ build.pc = "start"
    /\ LET made == create_all(db)
           geo == create_geo_lookup_table(create_lookup_tables(made.store), access, "NTEM", VERSION)
       IN  IF made.error
           THEN /\ db' = db
                /\ build' = [build EXCEPT !.pc = "failed"]
           ELSE IF geo.error
           THEN /\ db' = made.store
                /\ build' = [build EXCEPT !.pc = "failed"]
           ELSE /\ db' = [create_lookup_tables(made.store) EXCEPT
                            !.zone_type_list = geo.zone_type_list,
                            !.zones = geo.zones,
                            !.geo_lookup = geo.geo_lookup]
                /\ build' = [build EXCEPT !.pc = "metadata", !.todo = access.files,
                                          !.id_sub = geo.zones_id_lookup,
                                          !.id_lookups = geo.id_lookups,
                                          !.metadata_id = 0, !.converted = 0]
    /\ UNCHANGED <<access, NoQuery>>

\* build_db, loop head: the MetaData row of the next scenario, committed
AddMetadata ==
    /\ build.pc = "metadata"
    /\ build.todo # <<>>
    /\ db' = [db EXCEPT !.metadata =
                Append(@, [scenario |-> Head(build.todo), version |-> VERSION,
                           share_type_id |-> 1])]
    /\ build' = [build EXCEPT !.pc = "facts", !.metadata_id = Len(db.metadata) + 1]
    /\ UNCHANGED <<access, NoQuery>>

\* build_db, loop body: process_scenario and the commit after it
ProcessScenario ==
    /\ build.pc = "facts"
    /\ Head(build.todo) \notin access.broken
    /\ db' = process_scenario(db, access, Head(build.todo), build.metadata_id, build.id_sub)
    /\ build' = [build EXCEPT !.pc = "metadata", !.todo = Tail(@)]
    /\ UNCHANGED <<access, NoQuery>>

\* process_scenario up to the table whose read raises: the tables before
\* it are inserted in the open transaction
process_scenario_until(store, file, scenario, metadata_id, id_sub, raising) ==
    LET whole == process_scenario(store, file, scenario, metadata_id, id_sub)
    IN  [store EXCEPT
           !.planning = IF raising > 1 THEN whole.planning ELSE @,
           !.car_ownership = IF raising > 2 THEN whole.car_ownership ELSE @,
           !.trip_end_data_by_car_availability =
               IF raising > 3 THEN whole.trip_end_data_by_car_availability ELSE @]

\* the open transaction made durable as it is
commit(committed, pending) == pending

\* orm.Session.__exit__ on an exception: the session closes and the open
\* transaction is rolled back to the last commit
rollback(committed, pending) == committed

\* build_db, loop body: reading one of the four tables of a data file
\* raises; the session closes without a commit
LoadFails ==
    /\ build.pc = "facts"
    /\ Head(build.todo) \in access.broken
    /\ \E raising \in 1..4 :
          db' = rollback(db, process_scenario_until(db, access, Head(build.todo),
                                 build.metadata_id, build.id_sub, raising))
    /\ build' = [build EXCEPT !.pc = "failed"]
    /\ UNCHANGED <<access, NoQuery>>

\* build_db returns
BuildDone ==
    /\ build.pc = "metadata"
    /\ build.todo = <<>>
    /\ build' = [build EXCEPT !.pc = "done"]
    /\ UNCHANGED <<access, db, NoQuery>>

\* build.py convert_to_avg_period, run on a built store in a session that
\* is committed; MaxConvert bounds the number of passes
ConvertToAvgPeriod ==
    /\ pc = "ready" /\ build.pc = "done"
    /\ build.converted < MaxConvert
    /\ db' = convert_to_avg_period(db)
    /\ build' = [build EXCEPT !.converted = @ + 1]
    /\ UNCHANGED <<access, NoQuery>>

\* queries.py PlanningQuery.query
QueryPlanning ==
    /\ pc = "ready" /\ build.pc = "done"
    /\ \E req \in PlanningRequests, ys \in StoreYearLists :
         LET w == planning_data_query(db, req, query_years(ys))
         IN  /\ request' = req
             /\ years' = ys
             /\ out' = planning_drop(queries_wrapper_func(w, ys), req)
             /\ executed' = statements_executed(w, ys)
    /\ pc' = "queries"
    /\ db' = select(db)
    /\ UNCHANGED <<access, build, wrapped, run>>

\* queries.py CarOwnershipQuery.query
QueryCarOwnership ==
    /\ pc = "ready" /\ build.pc = "done"
    /\ \E req \in Requests("CarOwnership"), ys \in StoreYearLists :
         LET w == car_ownership_data_query(db, req, query_years(ys))
         IN  /\ request' = req
             /\ years' = ys
             /\ out' = queries_wrapper_func(w, ys)
             /\ executed' = statements_executed(w, ys)
    /\ pc' = "queries"
    /\ db' = select(db)
    /\ UNCHANGED <<access, build, wrapped, run>>

\* queries.py TripEndByDirectionQuery.query
QueryTripEndByDirection ==
    /\ pc = "ready" /\ build.pc = "done"
    /\ \E req \in DirectionRequests, ys \in StoreYearLists :
         LET w == direction_data_query(db, req, query_years(ys))
             data == queries_wrapper_func(w, ys)
         IN  /\ request' = req
             /\ years' = ys
             /\ out' = direction_lookups(db, req, data)
             /\ executed' = statements_executed(w, ys) +
                              (IF data.kind = "table" THEN lookup_statements(db, req) ELSE 0)
    /\ pc' = "queries"
    /\ db' = select(db)
    /\ UNCHANGED <<access, build, wrapped, run>>

\* queries.py TripEndByCarAvailbilityQuery.query, up to the return of
\* _data_query: the frame has no "year" index level, so apply_lookups is
\* never reached
QueryTripEndByCarAvailability ==
    /\ pc = "ready" /\ build.pc = "done"
    /\ \E req \in Requests("TripEndByCarAvailability"), ys \in StoreYearLists :
         LET w == car_availability_data_query(db, req, query_years(ys))
         IN  /\ request' = req
             /\ years' = ys
             /\ out' = queries_wrapper_func(w, ys)
             /\ executed' = statements_executed(w, ys)
    /\ pc' = "queries"
    /\ db' = select(db)
    /\ UNCHANGED <<access, build, wrapped, run>>

\* query.py PlanningQuery.query, the query the command line runs
QueryPlanningYear ==
    /\ pc = "ready" /\ build.pc = "done"
    /\ \E req \in Requests("Planning"), year \in StoreYears :
         LET w == planning_year_data_query(db, req, year)
         IN  /\ request' = req
             /\ years' = <<year>>
             /\ out' = planning_drop(query_wrapper_func(w, year), req)
             /\ executed' = statements_executed(w, <<year>>)
    /\ pc' = "query"
    /\ db' = select(db)
    /\ UNCHANGED <<access, build, wrapped, run>>

Next ==
    \/ BuildLookups
    \/ AddMetadata
    \/ ProcessScenario
    \/ BuildDone
    \/ QueryPlanning
    \/ QueryCarOwnership
    \/ QueryTripEndByDirection
    \/ QueryTripEndByCarAvailability
    \/ QueryPlanningYear

Spec == Init /\ [][Next]_vars

----------------------------------------------------------------------------
(* The queries over stores whose lookup file may leave an authority        *)
(* without a code.                                                         *)

InitLabel ==
    /\ access \in {[authority_id |-> a, base |-> b, files |-> <<"high", "low">>,
                     lookup |-> l, zones |-> DataZoneIds, broken |-> {}] :
                     a \in {[r \in {1, 2, 3} |-> 1], [r \in {1, 2, 3} |-> IF r = 2 THEN 2 ELSE 1]},
                     b \in 0..MaxValue,
                     l \in {"plain", "null_code"}}
    /\ db = NoTables
    /\ build = [pc |-> "start", todo |-> <<>>, id_sub |-> <<>>, id_lookups |-> <<>>,
                metadata_id |-> 0, converted |-> 0, runs |-> 1]
    /\ request = <<>>
    /\ executed = 0
    /\ wrapped = <<>>
    /\ years = <<>>
    /\ out = NoResult
    /\ pc = "ready"
    /\ run = NoRun

SpecLabel == InitLabel /\ [][Next]_vars

----------------------------------------------------------------------------
(* The time-period pass: a build, then passes of convert_to_avg_period     *)
(* over the built store, then a directional query.                         *)

InitConvert ==
    /\ access \in {[authority_id |-> a, base |-> b, files |-> f,
                     lookup |-> "plain", zones |-> DataZoneIds, broken |-> {}] :
                     a \in {[r \in {1, 2, 3} |-> 1], [r \in {1, 2, 3} |-> IF r = 2 THEN 2 ELSE 1]},
                     b \in 0..MaxValue,
                     f \in ScenarioOrders}
    /\ db = NoTables
    /\ build = [pc |-> "start", todo |-> <<>>, id_sub |-> <<>>, id_lookups |-> <<>>,
                metadata_id |-> 0, converted |-> 0, runs |-> 1]
    /\ request = <<>>
    /\ executed = 0
    /\ wrapped = <<>>
    /\ years = <<>>
    /\ out = NoResult
    /\ pc = "ready"
    /\ run = NoRun

NextConvert ==
    \/ BuildLookups
    \/ AddMetadata
    \/ ProcessScenario
    \/ BuildDone
    \/ ConvertToAvgPeriod
    \/ QueryTripEndByDirection

SpecConvert == InitConvert /\ [][NextConvert]_vars

----------------------------------------------------------------------------
(* The build alone, over the files a directory may hold: lookup files with *)
(* records that share a name or a code, data files with the invalid zone   *)
(* marker or with a zone the lookup file does not list, and data files     *)
(* that cannot be read.                                                    *)

UnlistedZoneId == 7

DataZoneLists ==
    {DataZoneIds,
     <<2, INVALID_ZONE_ID, 3, 1>>,
     <<2, 3, UnlistedZoneId, 1>>,
     <<INVALID_ZONE_ID, 2, UnlistedZoneId>>}

BrokenFiles == {{}, {"high"}, {"low"}}

InitBuild ==
    /\ access \in {[authority_id |-> a, base |-> b, files |-> f,
                     lookup |-> l, zones |-> z, broken |-> x] :
                     a \in {[r \in {1, 2, 3} |-> 1], [r \in {1, 2, 3} |-> IF r = 2 THEN 2 ELSE 1]},
                     b \in 0..MaxValue,
                     f \in ScenarioOrders,
                     l \in LookupFiles,
                     z \in DataZoneLists,
                     x \in BrokenFiles}
    /\ db = NoTables
    /\ build = [pc |-> "start", todo |-> <<>>, id_sub |-> <<>>, id_lookups |-> <<>>,
                metadata_id |-> 0, converted |-> 0, runs |-> 1]
    /\ request = <<>>
    /\ executed = 0
    /\ wrapped = <<>>
    /\ years = <<>>
    /\ out = NoResult
    /\ pc = "ready"
    /\ run = NoRun

NextBuild ==
    \/ BuildLookups
    \/ AddMetadata
    \/ ProcessScenario
    \/ LoadFails
    \/ BuildDone

SpecBuild == InitBuild /\ [][NextBuild]_vars

----------------------------------------------------------------------------
(* Properties of the store and of the queries against it (checked under    *)
(* Spec)                                                                   *)

Queried == pc \in {"queries", "query"}

\* create_geo_lookup_table has returned
GeoLookupCreated == build.pc \in {"metadata", "facts", "done"}

\* id of the ZoneType row of a hierarchy of the lookup source
TypeIdOf(system) ==
    CHOOSE t \in DOMAIN db.zone_type_list :
        db.zone_type_list[t].name = (IF system = "ntem_zoning" THEN "zone" ELSE system)

\* the Zone row inserted for the raw record raw_id of a hierarchy
ZoneIdOf(system, raw_id) ==
    CHOOSE z \in DOMAIN db.zones :
        /\ db.zones[z].zone_type_id = TypeIdOf(system)
        /\ \E j \in DOMAIN access_to_df(access, system) :
              /\ access_to_df(access, system)[j].ntem_zoning_id = raw_id
              /\ join_col(system, access_to_df(access, system)[j]) = join_col(system, db.zones[z])

\* the raw id of the zone a fine-zone record belongs to in a hierarchy
ParentOf(record, system) ==
    CASE system = "region" -> record.region_id
      [] system = "county" -> record.county_id
      [] system = "authority" -> record.authority_id

CrosswalkRows(record, system) ==
    {g \in DOMAIN db.geo_lookup :
        /\ db.geo_lookup[g].from_zone_id = ZoneIdOf("ntem_zoning", record.ntem_zoning_id)
        /\ db.geo_lookup[g].to_zone_type_id = TypeIdOf(system)}

\* C7: every query given exactly one of filter_zoning_system and
\* filter_zone_names raises a usage error (ValueError) and has executed no
\* statement against the store.
C7_LoneFilterRaises ==
    (Queried /\ LoneFilter(request)) =>
        (out.kind = "error" /\ out.error = "ValueError" /\ executed = 0)

\* C8: a query never hands an empty table to its caller: when its parameters
\* select no rows it ends in an error.
C8_EmptySelectionFails ==
    Queried =>
        ~(out.kind = "table" /\ \A i \in DOMAIN out.blocks : DOMAIN out.blocks[i].rows = {})

\* C9: once create_geo_lookup_table has returned, the crosswalk holds for
\* every fine zone of the lookup source and each of authority, county and
\* region exactly one row, and that row leads to the fine zone's zone in
\* that hierarchy.
C9_CrosswalkComplete ==
    GeoLookupCreated =>
        \A i \in DOMAIN tblLookupGeo83(access), system \in {"authority", "county", "region"} :
            LET record == tblLookupGeo83(access)[i]
            IN  /\ Cardinality(CrosswalkRows(record, system)) = 1
                /\ \A g \in CrosswalkRows(record, system) :
                      db.geo_lookup[g].to_zone_id = ZoneIdOf(system, ParentOf(record, system))

\* ---- C10 ----
RECURSIVE SumTo(_, _)
SumTo(f, n) == IF n = 0 THEN Int2Rat(0) ELSE RatAdd(f[n], SumTo(f, n - 1))

\* the fine zones with a crosswalk row to coarse zone z
FineZonesOf(z) ==
    {db.geo_lookup[g].from_zone_id : g \in
        {g \in DOMAIN db.geo_lookup :
            /\ db.geo_lookup[g].to_zone_id = z
            /\ db.geo_lookup[g].to_zone_type_id = request.output_zoning}}

\* the output zones a label stands for
ZonesLabelled(label) ==
    {z \in DOMAIN db.zones :
        /\ db.zones[z].zone_type_id = request.output_zoning
        /\ label \in {db.zones[z].source_id_or_code, db.zones[z].name}}

\* a stored row belongs to the run and year asked for, to a fine zone under
\* z, and (when a spatial filter is given) to the filter's zones
RowOfZone(row, z, y) ==
    /\ row.metadata_id = request.metadata_id
    /\ row.year = y
    /\ row.zone_id \in FineZonesOf(z)
    /\ (HasFilter(request) => InZoneSubset(db, request, row.zone_id))

DivideBy(time_period) ==
    db.time_period_types[CHOOSE t \in DOMAIN db.time_period_types :
                            db.time_period_types[t].id = time_period].divide_by

\* the sum of the stored rows under coarse zone z for index key k and year y
StoredSum(z, k, y) ==
    CASE request.type = "Planning" ->
            SumTo([i \in DOMAIN db.planning |->
                     IF /\ RowOfZone(db.planning[i], z, y)
                        /\ NameOf(db.planning_data_types, db.planning[i].planning_data_type) = k[2]
                     THEN db.planning[i].value ELSE Int2Rat(0)],
                  Len(db.planning))
      [] request.type = "CarOwnership" ->
            SumTo([i \in DOMAIN db.car_ownership |->
                     IF /\ RowOfZone(db.car_ownership[i], z, y)
                        /\ NameOf(db.car_ownership_types,
                                  db.car_ownership[i].car_ownership_type) = k[2]
                     THEN db.car_ownership[i].value ELSE Int2Rat(0)],
                  Len(db.car_ownership))
      [] request.type = "TripEndByDirection" ->
            SumTo([i \in DOMAIN db.trip_end_data_by_direction |->
                     LET d == db.trip_end_data_by_direction[i]
                     IN  IF /\ RowOfZone(d, z, y)
                            /\ d.trip_type \in request.trip_type
                            /\ NameOf(db.time_period_types, d.time_period) = k[2]
                            /\ (~request.aggregate_purpose =>
                                   NameOf(db.purpose_types, d.purpose) = k[3])
                         THEN RatDivInt(d.value, DivideBy(d.time_period)) ELSE Int2Rat(0)],
                  Len(db.trip_end_data_by_direction))

CoarseQuery ==
    /\ pc = "queries"
    /\ request.type \in {"Planning", "CarOwnership", "TripEndByDirection"}
    /\ request.output_zoning # NTEM_ZONE_SYSTEM_ID
    /\ out.kind = "table"

\* C10: in the result of a Planning, CarOwnership or TripEndByDirection query
\* with a coarser output zoning, the value of a coarse zone, a retained
\* dimension value and a native year is the sum of the stored values (each
\* divided by its time period's divisor for directional data) of the fine
\* zones that have a crosswalk row to that coarse zone, every stored row
\* counted once.
C10_CoarseValueIsSumOfFineZones ==
    CoarseQuery =>
        \A i \in DOMAIN out.blocks :
            out.blocks[i].year \in NTEM_YEARS =>
                \A k \in DOMAIN out.blocks[i].rows :
                    /\ Cardinality(ZonesLabelled(k[1])) = 1
                    /\ \A z \in ZonesLabelled(k[1]) :
                          out.blocks[i].rows[k] = StoredSum(z, k, out.blocks[i].year)

\* a directional query by authority returned a native year in which a coarse
\* zone sums two or more fine zones with differing values
C10_Witness ==
    /\ CoarseQuery
    /\ request.type = "TripEndByDirection"
    /\ request.output_zoning = AUTHORITY_SYSTEM_ID
    /\ access.base > 0
    /\ \E i \in DOMAIN out.blocks :
          /\ out.blocks[i].year \in NTEM_YEARS
          /\ \E k \in DOMAIN out.blocks[i].rows :
                \E z \in ZonesLabelled(k[1]) : Cardinality(FineZonesOf(z)) >= 2

----------------------------------------------------------------------------
(* Properties of the build.                                                *)

Systems == {"ntem_zoning", "region", "county", "authority"}

\* every call of _process_geo_lookup_data has returned
Reconciled == build.id_lookups # <<>>

\* the Zones row id was inserted for the raw record: the type of the
\* hierarchy, the record's name, and its code where the hierarchy has one
InsertedFor(id, system, record) ==
    /\ id \in DOMAIN db.zones
    /\ db.zones[id].zone_type_id = TypeIdOf(system)
    /\ db.zones[id].name = record.name
    /\ db.zones[id].source_id_or_code =
          (IF has_source_id_or_code(system) THEN record.source_id_or_code ELSE NULL)

\* C11: for each hierarchy, the mapping _process_geo_lookup_data returned
\* sends the raw id of every record to the id of the Zones row inserted for
\* that record, and no two raw ids are sent to the same Zones id.
C11_MappingFollowsNaturalKey ==
    Reconciled =>
        \A system \in Systems :
            LET id_lookup == build.id_lookups[system]
                system_data == access_to_df(access, system)
            IN  /\ \A j \in DOMAIN system_data :
                     /\ system_data[j].ntem_zoning_id \in DOMAIN id_lookup
                     /\ InsertedFor(id_lookup[system_data[j].ntem_zoning_id],
                                    system, system_data[j])
                /\ \A r1, r2 \in DOMAIN id_lookup :
                     id_lookup[r1] = id_lookup[r2] => r1 = r2

\* a lookup file with two authorities of one name and different codes has
\* been reconciled
C11_Witness ==
    /\ Reconciled
    /\ access.lookup = "same_name"
    /\ Cardinality(DOMAIN build.id_lookups["authority"]) = 3
    /\ Cardinality(DOMAIN build.id_lookups["ntem_zoning"]) = 3

\* two raw records of a hierarchy of the lookup file share their natural key
SharedNaturalKey(system) ==
    LET system_data == access_to_df(access, system)
    IN  \E j1, j2 \in DOMAIN system_data :
           /\ j1 # j2
           /\ join_col(system, system_data[j1]) = join_col(system, system_data[j2])

\* C12: when two raw records of one hierarchy share their natural key, the
\* reconciliation raises and the build stops there: no mapping is returned,
\* no zone, run or fact is stored, and the build never goes on to the data.
C12_SharedKeyStopsBuild ==
    (build.pc # "start" /\ \E system \in Systems : SharedNaturalKey(system)) =>
        /\ build.pc = "failed"
        /\ ~Reconciled
        /\ db.zones = <<>>
        /\ db.metadata = <<>>
        /\ db.planning = <<>>

\* the build has stopped on a lookup file with two authorities of one code
C12_Witness ==
    /\ build.pc = "failed"
    /\ db.created
    /\ access.lookup = "same_code"
    /\ SharedNaturalKey("authority")
    /\ ~SharedNaturalKey("county")

FactTables ==
    {"planning", "car_ownership", "trip_end_data_by_car_availability",
     "trip_end_data_by_direction"}

\* the data table a fact table is loaded from
AccessTableOf(table) ==
    CASE table = "planning" -> "Planning"
      [] table = "car_ownership" -> "CarOwnership"
      [] table = "trip_end_data_by_car_availability" -> "TripEndDataByCarAvailability"
      [] table = "trip_end_data_by_direction" -> "TripEndDataByDirection"

\* the Zones ids the fine-zone mapping sends raw ids to
FineZoneImages == {build.id_sub[raw] : raw \in DOMAIN build.id_sub}

\* C13: every fact row _process_ntem_access_file has written carries as
\* zone_id the image of a raw id under the fine-zone mapping, the id of a
\* Zones row of the fine zone type; no fact row carries an id the mapping
\* did not produce.
C13_FactZoneIsMapped ==
    \A table \in FactTables :
        \A k \in DOMAIN db[table] :
            /\ db[table][k].zone_id \in FineZoneImages
            /\ db[table][k].zone_id \in DOMAIN db.zones
            /\ db.zones[db[table][k].zone_id].zone_type_id = db[table][k].zone_type_id

\* the runs whose data has been processed and committed
LoadedRuns ==
    {m \in DOMAIN db.metadata : ~(build.pc \in {"facts", "failed"} /\ m = build.metadata_id)}

\* the fact row comes from the source row under the year column
FactOf(fact, source_row, year, metadata_id) ==
    /\ fact.metadata_id = metadata_id
    /\ fact.year = year
    /\ fact.zone_id = Replace(source_row.zone_id, build.id_sub)
    /\ \A column \in DOMAIN source_row \ {"zone_id"} : fact[column] = source_row[column]

SourceRowsKept(table) ==
    LET data == AccessRows(access, AccessTableOf(table))
    IN  \A m \in LoadedRuns :
        \A i \in DOMAIN data :
            data[i].zone_id # INVALID_ZONE_ID =>
                \A y \in DOMAIN YearColumns :
                    \E k \in DOMAIN db[table] :
                        FactOf(db[table][k], data[i], YearColumns[y], m)

\* C14: no fact row is stored for a source row whose zone id is the marker
\* 9999, and every other source row of a processed data table is stored
\* under each of its year columns.
C14_InvalidZoneDropped ==
    \A table \in FactTables :
        /\ \A k \in DOMAIN db[table] : db[table][k].zone_id # INVALID_ZONE_ID
        /\ SourceRowsKept(table)

\* a data file with marker rows has been processed
C14_Witness ==
    /\ LoadedRuns # {}
    /\ \E i \in DOMAIN access.zones : access.zones[i] = INVALID_ZONE_ID
    /\ \E i \in DOMAIN access.zones : access.zones[i] # INVALID_ZONE_ID
    /\ db.trip_end_data_by_direction # <<>>

\* the positions of the source rows of a data table that are not dropped
KeptSourceRows(table) ==
    {i \in DOMAIN AccessRows(access, AccessTableOf(table)) :
        AccessRows(access, AccessTableOf(table))[i].zone_id # INVALID_ZONE_ID}

\* C15: for every source table, the number of fact rows appended for a run
\* is (source rows - dropped rows) x year columns, and each source row that
\* is not dropped has exactly one fact row under each year column.
C15_OneFactPerRowAndYear ==
    \A table \in FactTables :
        LET data == AccessRows(access, AccessTableOf(table))
        IN  /\ Len(db[table]) =
                 Cardinality(LoadedRuns) * Cardinality(KeptSourceRows(table)) * Len(YearColumns)
            /\ \A m \in LoadedRuns :
               \A i \in KeptSourceRows(table) :
               \A y \in DOMAIN YearColumns :
                   Cardinality({k \in DOMAIN db[table] :
                                   FactOf(db[table][k], data[i], YearColumns[y], m)}) = 1

\* two data files with dropped rows have been processed into the direction table
C15_Witness ==
    /\ Cardinality(LoadedRuns) = 2
    /\ Cardinality(KeptSourceRows("trip_end_data_by_direction")) = 12
    /\ Len(AccessRows(access, "TripEndDataByDirection")) = 16
    /\ Len(db.trip_end_data_by_direction) = 48

\* some fact table holds a row of the run
HasFacts(metadata_id) ==
    \E table \in FactTables :
        \E k \in DOMAIN db[table] : db[table][k].metadata_id = metadata_id

\* C16: in every committed state of the store, during build_db and after
\* it, also after a data file failed to load, every MetadataRun row has its
\* facts: the run row and its facts become durable in the same commit.
C16_NoRunWithoutFacts ==
    \A m \in DOMAIN db.metadata : HasFacts(m)

----------------------------------------------------------------------------
(* Properties of the queries over a built store.                           *)

\* the ids of the MetaData rows build_db created for a scenario
RunIdsOf(scenario) ==
    {m \in DOMAIN db.metadata : db.metadata[m].scenario = scenario}

\* C17: for every scenario build_db has loaded, whichever scenarios the
\* build processed and in whichever order, the metadata id a query for the
\* scenario filters on is the id of the MetaData row created for it.
C17_QueryUsesRunId ==
    (Queried /\ RunIdsOf(request.scenario) # {}) =>
        request.metadata_id \in RunIdsOf(request.scenario)

\* a directional query has returned a table
DirectionTable == Queried /\ request.type = "TripEndByDirection" /\ out.kind = "table"

\* the time periods of the rows of the result, as the result labels them
TimePeriodsReturned ==
    {k[2] : k \in UNION {DOMAIN out.blocks[i].rows : i \in DOMAIN out.blocks}}

\* C18: a TripEndByDirectionQuery given a time_period_filter returns rows
\* for the time periods of the filter only.
C18_TimePeriodFilterApplied ==
    (DirectionTable /\ request.time_period_filter # None) =>
        TimePeriodsReturned \subseteq
            {NameOf(db.time_period_types, t) : t \in request.time_period_filter[1]}

\* a stored directional row counts towards the result row labelled k of year y
UnderKey(d, k, y) ==
    /\ d.metadata_id = request.metadata_id
    /\ d.year = y
    /\ (HasFilter(request) => InZoneSubset(db, request, d.zone_id))
    /\ IF request.output_zoning = NTEM_ZONE_SYSTEM_ID
       THEN d.zone_id \in ZonesLabelled(k[1])
       ELSE \E z \in ZonesLabelled(k[1]) : d.zone_id \in FineZonesOf(z)
    /\ NameOf(db.time_period_types, d.time_period) = k[2]
    /\ (~request.aggregate_purpose => NameOf(db.purpose_types, d.purpose) = k[3])

\* the figure of one trip-end type under the result row k of year y
TripEndTypeFigure(k, y, trip_type) ==
    SumTo([i \in DOMAIN db.trip_end_data_by_direction |->
             LET d == db.trip_end_data_by_direction[i]
             IN  IF UnderKey(d, k, y) /\ d.trip_type = trip_type
                 THEN RatDivInt(d.value, DivideBy(d.time_period)) ELSE Int2Rat(0)],
          Len(db.trip_end_data_by_direction))

\* C19: a directional query whose trip type covers several trip-end types
\* returns one value column per trip-end type, indexed by zone, time period
\* and year: every figure of the result is the figure of one trip-end type,
\* never the sum over the types.
C19_OneColumnPerTripEndType ==
    (DirectionTable /\ Cardinality(request.trip_type) > 1) =>
        /\ Len(direction_value_columns(request)) = Cardinality(request.trip_type)
        /\ \A i \in DOMAIN out.blocks :
              out.blocks[i].year \in NTEM_YEARS =>
                 \A k \in DOMAIN out.blocks[i].rows :
                     \E t \in request.trip_type :
                         out.blocks[i].rows[k] = TripEndTypeFigure(k, out.blocks[i].year, t)

\* a car-availability query by authority with a spatial filter that selects
\* stored rows of the requested run, over years the store can answer
CarAvailabilityByAuthority ==
    /\ Queried
    /\ request.type = "TripEndByCarAvailability"
    /\ request.output_zoning = AUTHORITY_SYSTEM_ID
    /\ HasFilter(request)
    /\ request.metadata_id \in RunIdsOf(request.scenario)
    /\ \A i \in DOMAIN years : years[i] >= NTEM_LOW_YEAR /\ years[i] <= NTEM_HIGH_YEAR
    /\ \E i \in DOMAIN db.trip_end_data_by_car_availability :
          LET c == db.trip_end_data_by_car_availability[i]
          IN  /\ c.metadata_id = request.metadata_id
              /\ InZoneSubset(db, request, c.zone_id)
              /\ \E g \in DOMAIN db.geo_lookup :
                    /\ db.geo_lookup[g].from_zone_id = c.zone_id
                    /\ db.geo_lookup[g].to_zone_type_id = request.output_zoning

\* the stored car-availability figure of output zone label, type name and year
CarAvailabilityFigure(k, y) ==
    SumTo([i \in DOMAIN db.trip_end_data_by_car_availability |->
             LET c == db.trip_end_data_by_car_availability[i]
             IN  IF /\ c.metadata_id = request.metadata_id
                    /\ c.year = y
                    /\ InZoneSubset(db, request, c.zone_id)
                    /\ \E z \in ZonesLabelled(k[1]) : c.zone_id \in FineZonesOf(z)
                    /\ NameOf(db.car_availability_types, c.car_availability_type) = k[2]
                 THEN c.value ELSE Int2Rat(0)],
          Len(db.trip_end_data_by_car_availability))

\* C20: a TripEndByCarAvailability query over the requested years with a
\* coarser output zoning and a spatial filter returns a non-empty table
\* with one block per requested year, indexed by output zone, car
\* availability type and year, whose values in a native year are the sums
\* of the stored values of the fine zones under the output zone.
C20_CarAvailabilityByOutputZone ==
    CarAvailabilityByAuthority =>
        /\ out.kind = "table"
        /\ Len(out.blocks) = Len(years)
        /\ \A i \in DOMAIN out.blocks :
              /\ DOMAIN out.blocks[i].rows # {}
              /\ \A level \in {"zone", "car_availability_type", "year"} :
                    \E j \in DOMAIN out.blocks[i].index : out.blocks[i].index[j] = level
              /\ out.blocks[i].year \in NTEM_YEARS =>
                    \A k \in DOMAIN out.blocks[i].rows :
                        out.blocks[i].rows[k] = CarAvailabilityFigure(k, out.blocks[i].year)

----------------------------------------------------------------------------
(* Properties of the time-period pass.                                     *)

\* the figure of the data file a stored directional row was loaded from
SourceValue(d) ==
    AccessValue(access, db.metadata[d.metadata_id].scenario, "TripEndDataByDirection",
                [d EXCEPT !.zone_id = CHOOSE raw \in DOMAIN build.id_sub :
                                          build.id_sub[raw] = d.zone_id],
                d.year)

\* the source figure divided once by the divisor of its time period
AvgPeriodValue(d) == Rat(SourceValue(d), DivideBy(d.time_period))

\* the sum of the once-divided figures under the result row k of year y
AvgPeriodFigure(k, y) ==
    SumTo([i \in DOMAIN db.trip_end_data_by_direction |->
             LET d == db.trip_end_data_by_direction[i]
             IN  IF UnderKey(d, k, y) /\ d.trip_type \in request.trip_type
                 THEN AvgPeriodValue(d) ELSE Int2Rat(0)],
          Len(db.trip_end_data_by_direction))

\* C21: convert_to_avg_period is idempotent and the directional query
\* divides exactly once: once the pass has run, however often, every stored
\* directional value is its source figure divided once by the divisor of its
\* time period, and whether or not the pass has run the figures of a
\* directional query are sums of source figures divided once.
C21_DividedExactlyOnce ==
    /\ build.converted >= 1 =>
          \A i \in DOMAIN db.trip_end_data_by_direction :
              db.trip_end_data_by_direction[i].value =
                  AvgPeriodValue(db.trip_end_data_by_direction[i])
    /\ DirectionTable =>
          \A i \in DOMAIN out.blocks :
              out.blocks[i].year \in NTEM_YEARS =>
                  \A k \in DOMAIN out.blocks[i].rows :
                      out.blocks[i].rows[k] = AvgPeriodFigure(k, out.blocks[i].year)

----------------------------------------------------------------------------
(* Properties of the labels and names of results.                          *)

\* the zone labels of the rows of a result
ZoneLabels == {k[1] : k \in UNION {DOMAIN out.blocks[i].rows : i \in DOMAIN out.blocks}}

OutputZones == {z \in DOMAIN db.zones : db.zones[z].zone_type_id = request.output_zoning}

\* every label is the code of an output zone
CodeLabelled ==
    ZoneLabels \subseteq {db.zones[z].source_id_or_code : z \in OutputZones} \ {NULL}

\* every label is the name of an output zone, and an output zone of the
\* result has no code
NameLabelled ==
    /\ ZoneLabels \subseteq {db.zones[z].name : z \in OutputZones}
    /\ \E z \in OutputZones :
          db.zones[z].name \in ZoneLabels /\ db.zones[z].source_id_or_code = NULL

\* the rows _data_query and the interpolation hand to apply_lookups
DirectionData == queries_wrapper_func(direction_data_query(db, request, query_years(years)), years)

\* C22: in every table a query returns, the zone labels of all rows come
\* from one field: the zone code when every output zone of the result has a
\* code, otherwise the zone name for every row; and a directional query
\* whose rows reach the labelling returns them labelled, by name where an
\* output zone has no code.
C22_ZoneLabelsFromOneField ==
    /\ (Queried /\ out.kind = "table") => (CodeLabelled \/ NameLabelled)
    /\ (Queried /\ request.type = "TripEndByDirection" /\ DirectionData.kind = "table") =>
           out.kind = "table"

----------------------------------------------------------------------------
(* QueryArgs.run: the queries of the run parameters, one after the other,  *)
(* each written to <output_path>/<query.name>.csv.  A file name is the     *)
(* sequence of its pieces, "." standing alone, so that with_suffix can     *)
(* find the last dot.  What a query returns is left open here: it returns  *)
(* a frame or raises.                                                      *)

RunYears == {<<NTEM_LOW_YEAR>>, <<NTEM_LOW_YEAR, NTEM_LOW_YEAR + NTEM_YEAR_STEP>>}
RunScenarios == {<<"high">>, <<"high", "low">>}
RunLabels == {None, Some("run")}

\* a RunParams of one kind, or None for a list that is not given
RunParams(kind) ==
    {None} \cup
    {Some([kind |-> kind, years |-> ys, scenarios |-> ss, label |-> l, trip_type |-> "OD"]) :
        ys \in RunYears, ss \in RunScenarios, l \in RunLabels}

\* the arguments of a run: at most one run of parameters of each kind
QueryArgsSet ==
    {[planning_runs |-> p, trip_end_by_direction_runs |-> d, car_ownership_runs |-> c] :
        p \in RunParams("Planning"), d \in RunParams("TripEndByDirection"),
        c \in RunParams("CarOwnership")} \
    {[planning_runs |-> None, trip_end_by_direction_runs |-> None, car_ownership_runs |-> None]}

\* RunParams.__iter__: for s in scenarios, for y in years
Iterate(params) ==
    [i \in 1..(Len(params.scenarios) * Len(params.years)) |->
        [kind |-> params.kind,
         scenario |-> params.scenarios[((i - 1) \div Len(params.years)) + 1],
         year |-> params.years[((i - 1) % Len(params.years)) + 1],
         label |-> params.label,
         trip_type |-> params.trip_type]]

\* the loop of QueryArgs.run over run_params, flattened
RunQueries(args) ==
    (IF args.planning_runs = None THEN <<>> ELSE Iterate(args.planning_runs[1])) \o
    (IF args.trip_end_by_direction_runs = None THEN <<>>
     ELSE Iterate(args.trip_end_by_direction_runs[1])) \o
    (IF args.car_ownership_runs = None THEN <<>> ELSE Iterate(args.car_ownership_runs[1]))

\* str(version.value) of Versions.EIGHT
VersionPieces == <<"8", ".", "0">>

AttributeError == <<"AttributeError">>

\* query.py <Query>.__init__: self._name.  The directional query reads
\* self._year before QueryParams.__init__ has set it when no label is given,
\* and with a label its f-string ends after the label: the pieces on the
\* next source line are a statement of their own
QueryName(q) ==
    LET tail == <<ToString(q.year), "_", q.scenario, "_">> \o VersionPieces
    IN  CASE q.kind = "Planning" ->
                IF q.label = None THEN <<"Planning", "_">> \o tail
                ELSE <<"Planning", "_", q.label[1], "_">> \o tail
          [] q.kind = "CarOwnership" ->
                IF q.label = None THEN <<"Car_Ownership", "_">> \o tail
                ELSE <<"Car_Ownership", "_", q.label[1], "_">> \o tail
          [] q.kind = "TripEndByDirection" ->
                IF q.label = None THEN AttributeError
                ELSE <<"trip_ends", "_", q.trip_type, "_", q.label[1]>>

\* pathlib PurePath.with_suffix: the part from the last dot on is replaced,
\* a name without a dot gets the suffix appended
with_suffix(name, suffix) ==
    LET dots == {i \in DOMAIN name : name[i] = "." /\ i > 1 /\ i < Len(name)}
    IN  IF dots = {} THEN name \o <<".", suffix>>
        ELSE SubSeq(name, 1, Max(dots) - 1) \o <<".", suffix>>

InitRun ==
    /\ wrapped = <<>>
    /\ years = <<>>
    /\ out = NoResult
    /\ pc = "ready"
    /\ access = <<>>
    /\ db = <<>>
    /\ build = <<>>
    /\ request = <<>>
    /\ executed = 0
    /\ run \in {[pc |-> "start", args |-> a, todo |-> <<>>, written |-> <<>>] :
                  a \in QueryArgsSet}

NoRunChange == <<wrapped, years, out, pc, access, db, build, request, executed>>

\* QueryArgs.run up to the loop: run_params collected
RunStart ==
    /\ run.pc = "start"
    /\ run' = [run EXCEPT !.pc = "loop", !.todo = RunQueries(run.args)]
    /\ UNCHANGED NoRunChange

\* one pass of the loop: the next query is built, run and written
RunQuery ==
    /\ run.pc = "loop"
    /\ run.todo # <<>>
    /\ LET q == Head(run.todo)
           name == QueryName(q)
       IN  IF name = AttributeError
           THEN run' = [run EXCEPT !.pc = "failed"]
           ELSE \E raises \in BOOLEAN :
                   IF raises
                   THEN run' = [run EXCEPT !.pc = "failed"]
                   ELSE run' = [run EXCEPT
                                  !.todo = Tail(@),
                                  !.written = Append(@, [path |-> with_suffix(name, "csv"),
                                                         query |-> q])]
    /\ UNCHANGED NoRunChange

\* QueryArgs.run returns
RunDone ==
    /\ run.pc = "loop"
    /\ run.todo = <<>>
    /\ run' = [run EXCEPT !.pc = "done"]
    /\ UNCHANGED NoRunChange

NextRun ==
    \/ RunStart
    \/ RunQuery
    \/ RunDone

SpecRun == InitRun /\ [][NextRun]_vars

\* C23: within one QueryArgs.run, two query invocations that differ in
\* scenario or in year are written to two different files: no file written
\* by a query of the run is written again by a later one.
C23_DistinctOutputFiles ==
    \A i, j \in DOMAIN run.written :
        (i < j /\ (\/ run.written[i].query.scenario # run.written[j].query.scenario
                   \/ run.written[i].query.year # run.written[j].query.year)) =>
            run.written[i].path # run.written[j].path

-----------------------------------------------------------------------------
(* build_db run again on the same database file.  Every run reads           *)
(* NTEM_CLEAN_DATABASE when the module is imported: with it the tables are  *)
(* dropped before create_all, without it create_all meets the tables of the *)
(* earlier run.                                                             *)

\* the number of build_db runs followed on one database file
MaxBuilds == 2

\* a further build_db run, up to and including the optional drop_all
StartBuild ==
    /\ build.pc \in {"done", "failed"}
    /\ build.runs < MaxBuilds
    /\ \E _CLEAN_DATABASE \in BOOLEAN, files \in ScenarioOrders :
          /\ db' = IF _CLEAN_DATABASE THEN drop_all(db) ELSE db
          /\ access' = [access EXCEPT !.files = files]
    /\ build' = [pc |-> "start", todo |-> <<>>, id_sub |-> <<>>, id_lookups |-> <<>>,
                 metadata_id |-> 0, converted |-> 0, runs |-> build.runs + 1]
    /\ UNCHANGED NoQuery

InitRebuild ==
    /\ access \in {[authority_id |-> [r \in {1, 2, 3} |-> IF r = 2 THEN 2 ELSE 1],
                     base |-> 1, files |-> f,
                     lookup |-> l, zones |-> DataZoneIds, broken |-> x] :
                     f \in ScenarioOrders,
                     l \in LookupFiles,
                     x \in BrokenFiles}
    /\ db = NoTables
    /\ build = [pc |-> "start", todo |-> <<>>, id_sub |-> <<>>, id_lookups |-> <<>>,
                metadata_id |-> 0, converted |-> 0, runs |-> 1]
    /\ request = <<>>
    /\ executed = 0
    /\ wrapped = <<>>
    /\ years = <<>>
    /\ out = NoResult
    /\ pc = "ready"
    /\ run = NoRun

NextRebuild ==
    \/ BuildLookups
    \/ AddMetadata
    \/ ProcessScenario
    \/ LoadFails
    \/ BuildDone
    \/ StartBuild

SpecRebuild == InitRebuild /\ [][NextRebuild]_vars

\* C24: whatever build_db runs were made on one database file, clean or not,
\* no two MetaData rows of the store have the same scenario and version
C24_OneRunPerScenarioVersion ==
    \A i \in DOMAIN db.metadata : \A j \in DOMAIN db.metadata :
        (db.metadata[i].scenario = db.metadata[j].scenario
            /\ db.metadata[i].version = db.metadata[j].version) => i = j

\* a second run without the clean mode has met the two runs of the first
C24_Witness ==
    /\ build.runs > 1
    /\ build.pc = "failed"
    /\ build.todo = <<>>
    /\ Len(db.metadata) = 2
    /\ HasFacts(1) /\ HasFacts(2)

-----------------------------------------------------------------------------
(* The crosswalk geo_lookup: the rows of one coarser hierarchy.             *)

\* the fine zones the crosswalk maps to the zone to_zone_id of the hierarchy
FineZonesMappedTo(to_zone_type_id, to_zone_id) ==
    {db.geo_lookup[i].from_zone_id : i \in
        {j \in DOMAIN db.geo_lookup :
            /\ db.geo_lookup[j].to_zone_type_id = to_zone_type_id
            /\ db.geo_lookup[j].to_zone_id = to_zone_id}}

\* the hierarchies and their zones the crosswalk names
CoarseZones ==
    {<<db.geo_lookup[i].to_zone_type_id, db.geo_lookup[i].to_zone_id>> :
        i \in DOMAIN db.geo_lookup}

\* C25: in the stored crosswalk the sets of fine zones mapped to two distinct
\* zones of one coarser hierarchy are disjoint: no fine zone is mapped to
\* two zones of the same hierarchy
C25_CoarseZonesDisjoint ==
    \A a \in CoarseZones : \A b \in CoarseZones :
        (a[1] = b[1] /\ a[2] # b[2]) =>
            FineZonesMappedTo(a[1], a[2]) \cap FineZonesMappedTo(b[1], b[2]) = {}

\* a built crosswalk with two zones of one hierarchy, one of them holding
\* two fine zones
C25_Witness ==
    /\ build.pc = "done"
    /\ \E a \in CoarseZones : \E b \in CoarseZones :
          /\ a[1] = b[1] /\ a[2] # b[2]
          /\ Cardinality(FineZonesMappedTo(a[1], a[2])) = 2
          /\ Cardinality(FineZonesMappedTo(b[1], b[2])) = 1

-----------------------------------------------------------------------------
(* The years the batched interpolator asks the wrapped query for           *)
(* (checked under SpecInterp)                                               *)

\* the native year at or below y, from the grid's arithmetic
LowerBracket(y) ==
    NTEM_LOW_YEAR + NTEM_YEAR_STEP * ((y - NTEM_LOW_YEAR) \div NTEM_YEAR_STEP)

UpperBracket(y) == LowerBracket(y) + NTEM_YEAR_STEP

RequestedNative == {y \in SeqRange(years) : y \in NTEM_YEARS}

RequestedNonNative == SeqRange(years) \ NTEM_YEARS

\* C26: for a list of requested years inside the native range, the years
\* passed to the wrapped query, in its one call, are the requested native
\* years and the lower and upper bracket of every requested non-native year,
\* as one set: no year is passed twice
C26_QueriedYears ==
    (pc = "queries" /\ \A i \in DOMAIN years : ~OutOfRange(years[i])) =>
        query_years(years) =
            RequestedNative \cup
            UNION {{LowerBracket(y), UpperBracket(y)} : y \in RequestedNonNative}

\* a native year requested together with a year of the bracket above it
C26_Witness ==
    /\ pc = "queries"
    /\ out.kind = "table"
    /\ Len(years) = 2
    /\ years[1] \in NTEM_YEARS
    /\ years[2] \notin NTEM_YEARS
    /\ LowerBracket(years[2]) = years[1]
    /\ query_years(years) = {years[1], years[1] + NTEM_YEAR_STEP}

-----------------------------------------------------------------------------
(* A data file that fails to load (checked under SpecBuild)                 *)

\* the rows of a fact table that belong to other runs than metadata_id
RowsOfOtherRuns(table, metadata_id) ==
    SelectSeq(table, LAMBDA row : row.metadata_id # metadata_id)

LookupTables ==
    {"car_availability_types", "car_ownership_types", "mode_types", "purpose_types",
     "time_period_types", "trip_type_types", "planning_data_types"}

\* the step of build_db in which the load of a scenario's facts raises
LoadOfScenarioFails == build.pc = "facts" /\ build'.pc = "failed"

\* C27: when loading the facts of a scenario fails, the store holds no fact
\* row of that scenario in any of the four fact tables, and the lookup
\* tables, the zones, the crosswalk and the fact rows of the scenarios loaded
\* before are as they were committed
C27_FailedLoadRolledBack ==
    [][LoadOfScenarioFails =>
          /\ \A table \in FactTables :
                /\ \A k \in DOMAIN db'[table] :
                      db'[table][k].metadata_id # build.metadata_id
                /\ RowsOfOtherRuns(db'[table], build.metadata_id) = db[table]
          /\ \A table \in LookupTables : db'[table] = db[table]
          /\ db'.zone_type_list = db.zone_type_list
          /\ db'.zones = db.zones
          /\ db'.geo_lookup = db.geo_lookup]_vars

\* the second scenario failed to load after the first was loaded
C27_Witness ==
    /\ build.pc = "failed"
    /\ build.metadata_id = 2
    /\ Head(build.todo) \in access.broken
    /\ HasFacts(1)
    /\ ~HasFacts(2)

-----------------------------------------------------------------------------
(* The store across a query (checked under Spec)                            *)

\* a step in which one of the queries runs, to a table or to an error
QueryRuns == pc = "ready" /\ pc' \in {"queries", "query"}

-----------------------------------------------------------------------------
(* The zone type ids (checked under SpecBuild)                              *)

\* ZoningSystems.id of the zone type with the given name
ZoningSystemId(name) ==
    CASE name = "zone" -> NTEM_ZONE_SYSTEM_ID
      [] name = "authority" -> AUTHORITY_SYSTEM_ID
      [] name = "county" -> COUNTY_SYSTEM_ID
      [] name = "region" -> REGION_SYSTEM_ID

\* the ZoneType rows of the four systems carry the ids ZoningSystems.id uses
ZoneTypeIdsAgree ==
    db.zone_type_list # <<>> =>
        /\ Len(db.zone_type_list) = 4
        /\ \A id \in DOMAIN db.zone_type_list :
              ZoningSystemId(db.zone_type_list[id].name) = id

\* the zone_type_id written on the fact rows is the id of the fine-zone type
FactZoneTypeIsFine ==
    \A table \in FactTables :
        \A k \in DOMAIN db[table] :
            /\ db[table][k].zone_type_id \in DOMAIN db.zone_type_list
            /\ db.zone_type_list[db[table][k].zone_type_id].name = "zone"

\* C29: after build_db on a fresh database the ZoneType rows of zone,
\* authority, county and region have the ids 1, 2, 3 and 4 of
\* ZoningSystems.id, the zone_type_id 1 of every fact row is the id of the
\* fine-zone ZoneType, and every fact row's (zone_id, zone_type_id) is the
\* (id, zone_type_id) of a Zones row
C29_FactZoneMatchesZoneRow ==
    /\ ZoneTypeIdsAgree
    /\ FactZoneTypeIsFine
    /\ \A table \in FactTables :
          \A k \in DOMAIN db[table] :
              \E z \in DOMAIN db.zones :
                  /\ z = db[table][k].zone_id
                  /\ db.zones[z].zone_type_id = db[table][k].zone_type_id

-----------------------------------------------------------------------------
(* The spatial filter (checked under Spec)                                  *)

\* the lookup source's name of the zoning system with the given id
SystemOf(zoning_id) ==
    CASE zoning_id = NTEM_ZONE_SYSTEM_ID -> "ntem_zoning"
      [] zoning_id = AUTHORITY_SYSTEM_ID -> "authority"
      [] zoning_id = COUNTY_SYSTEM_ID -> "county"
      [] zoning_id = REGION_SYSTEM_ID -> "region"

\* the fine-zone record of the lookup source belongs to one of the named
\* zones of the system; at the fine-zone level it is one of the named zones
BelongsToNamed(record, system, zone_names) ==
    IF system = "ntem_zoning" THEN record.name \in zone_names
    ELSE \E j \in DOMAIN access_to_df(access, system) :
            /\ access_to_df(access, system)[j].ntem_zoning_id = ParentOf(record, system)
            /\ access_to_df(access, system)[j].name \in zone_names

\* the stored ids of the fine zones that belong to the named zones
NamedFineZones(zone_names, zoning_id) ==
    {ZoneIdOf("ntem_zoning", tblLookupGeo83(access)[i].ntem_zoning_id) :
        i \in {j \in DOMAIN tblLookupGeo83(access) :
                  BelongsToNamed(tblLookupGeo83(access)[j], SystemOf(zoning_id), zone_names)}}

\* the filter of the request keeps the fact rows of exactly these fine zones
FilterKeepsNamed ==
    \A table \in FactTables :
        \A k \in DOMAIN db[table] :
            InZoneSubset(db, request, db[table][k].zone_id) <=>
                db[table][k].zone_id \in
                    NamedFineZones(request.filter_zone_names[1],
                                   request.filter_zoning_system[1])

\* C30: a spatial filter keeps exactly the fact rows of the fine zones that
\* belong to one of the named zones of the filter zoning system; a filter at
\* the fine-zone level keeps exactly the rows of the named fine zones
C30_SpatialFilterKeeps ==
    (Queried /\ HasFilter(request)) => FilterKeepsNamed

====
